---------------------------- MODULE Spec2Model ----------------------------
(***************************************************************************)
(* A model of kagenti_a2a_client: the session registry (core/session.py),  *)
(* the JSON-RPC transport (core/connection.py) and the synchronous client   *)
(* (communication/sync_client.py).                                         *)
(*                                                                         *)
(* Conventions.                                                            *)
(*  - An Optional[X] is a sequence of length at most one: <<>> is None and  *)
(*    <<x>> is the value x.                                                 *)
(*  - A Python str is a sequence of tokens.  The whitespace characters are  *)
(*    tokens of their own, every other token is a run of non-whitespace     *)
(*    text, so that strip(), concatenation and emptiness are computed as    *)
(*    Python computes them.                                                 *)
(*  - A decoded JSON value is a record tagged by its field t.               *)
(*  - Time is counted in whole minutes; datetime.now() reads the variable   *)
(*    now, which only the environment action Tick advances.                 *)
(*  - Every caller is a thread with a program counter; a `with self._lock`  *)
(*    block is entered only while the lock is free.                         *)
(***************************************************************************)
EXTENDS Integers, Sequences, FiniteSets, TLC

VARIABLES
    now,              \* the wall clock read by datetime.now(), in minutes
    uuids,            \* how many uuid.uuid4() tokens have been drawn
    default_timeout,  \* SessionManager.default_timeout
    sessions,         \* SessionManager._sessions, in insertion order
    lock,             \* SessionManager._lock: <<>> or <<holder>>
    heap,             \* every Session object constructed so far
    client_closed,    \* whether A2AConnection._client has been closed
    th                \* per thread: program counter, arguments, locals, result

vars == <<now, uuids, default_timeout, sessions, lock, heap, client_closed, th>>

(***************************************************************************)
(* Bounds of the model.                                                    *)
(***************************************************************************)
MaxClock == 2
MaxUuid == 2
MaxObjs == 2
MaxTimeout == 1

Threads == {"t1", "t2"}
SessionIds == {"s1", "s2"}
Messages == {"m1", "m2"}
AgentUrl == "http://a"

None == <<>>
Some(x) == <<x>>
IsNone(o) == o = <<>>
Val(o) == o[1]

(***************************************************************************)
(* Python strings as token sequences.                                      *)
(***************************************************************************)
Whitespace == {" ", "\n", "\t"}

RECURSIVE LStrip(_)
LStrip(s) ==
    IF s = <<>> THEN <<>>
    ELSE IF Head(s) \in Whitespace THEN LStrip(Tail(s))
    ELSE s

RECURSIVE RStrip(_)
RStrip(s) ==
    IF s = <<>> THEN <<>>
    ELSE IF s[Len(s)] \in Whitespace THEN RStrip(SubSeq(s, 1, Len(s) - 1))
    ELSE s

\* str.strip(): whitespace is removed at both ends
Strip(s) == RStrip(LStrip(s))

(***************************************************************************)
(* Decoded JSON values.                                                    *)
(***************************************************************************)
JNull == [t |-> "null"]
JStr(s) == [t |-> "str", s |-> s]
JInt(n) == [t |-> "int", n |-> n]
JList(items) == [t |-> "list", items |-> items]
\* a dict is the sequence of its <<key, value>> pairs, keys distinct
JDict(items) == [t |-> "dict", items |-> items]

HasKey(d, k) == \E i \in 1..Len(d.items) : d.items[i][1] = k
Get(d, k) == d.items[CHOOSE i \in 1..Len(d.items) : d.items[i][1] = k][2]

RECURSIVE PyRepr(_)
RECURSIVE ReprItems(_)
RECURSIVE ReprPairs(_)
\* repr() of a decoded JSON value
PyRepr(v) ==
    CASE v.t = "null" -> <<"None">>
      [] v.t = "str"  -> <<"'">> \o v.s \o <<"'">>
      [] v.t = "int"  -> <<ToString(v.n)>>
      [] v.t = "list" -> <<"[">> \o ReprItems(v.items) \o <<"]">>
      [] v.t = "dict" -> <<"{">> \o ReprPairs(v.items) \o <<"}">>

ReprItems(items) ==
    IF items = <<>> THEN <<>>
    ELSE PyRepr(Head(items))
         \o (IF Len(items) > 1 THEN <<",", " ">> ELSE <<>>)
         \o ReprItems(Tail(items))

ReprPairs(items) ==
    IF items = <<>> THEN <<>>
    ELSE <<"'", Head(items)[1], "'", ":", " ">> \o PyRepr(Head(items)[2])
         \o (IF Len(items) > 1 THEN <<",", " ">> ELSE <<>>)
         \o ReprPairs(Tail(items))

\* str() of a decoded JSON value: a str is itself, anything else its repr
PyStr(v) == IF v.t = "str" THEN v.s ELSE PyRepr(v)


\* json.dumps() of a decoded JSON value, the text that travels in a body
RECURSIVE JsonDumps(_)
RECURSIVE DumpItems(_)
RECURSIVE DumpPairs(_)
JsonDumps(v) ==
    CASE v.t = "null" -> <<"null">>
      [] v.t = "str"  -> <<"\"">> \o v.s \o <<"\"">>
      [] v.t = "int"  -> <<ToString(v.n)>>
      [] v.t = "list" -> <<"[">> \o DumpItems(v.items) \o <<"]">>
      [] v.t = "dict" -> <<"{">> \o DumpPairs(v.items) \o <<"}">>

DumpItems(items) ==
    IF items = <<>> THEN <<>>
    ELSE JsonDumps(Head(items))
         \o (IF Len(items) > 1 THEN <<",", " ">> ELSE <<>>)
         \o DumpItems(Tail(items))

DumpPairs(items) ==
    IF items = <<>> THEN <<>>
    ELSE <<"\"", Head(items)[1], "\"", ":", " ">> \o JsonDumps(Head(items)[2])
         \o (IF Len(items) > 1 THEN <<",", " ">> ELSE <<>>)
         \o DumpPairs(Tail(items))

(***************************************************************************)
(* Exceptions.  message is what str(e) gives; cause is the exception named  *)
(* by `raise ... from e`.                                                   *)
(***************************************************************************)
Exc(type, message, error_code, cause) ==
    [type |-> type, message |-> message, error_code |-> error_code, cause |-> cause]

\* A2AConnectionError.__init__(message, error_code=None)
A2AConnectionError(message, error_code, cause) ==
    Exc("A2AConnectionError", message, error_code, cause)

SyncClientError(message, cause) == Exc("SyncClientError", message, None, cause)

Returned(v) == [kind |-> "return", v |-> v]
Raised(e) == [kind |-> "raise", exc |-> e]

(***************************************************************************)
(* The HTTP exchange, as the environment decides it: either the request     *)
(* fails at connection level (httpx.RequestError) or a response arrives     *)
(* with a status and a body.  A body is its text and, when that text is     *)
(* a JSON document, the value json decoding yields.                         *)
(***************************************************************************)
RequestFailure(text) == [kind |-> "request_error", text |-> text]
HttpResponse(status, body) == [kind |-> "response", status |-> status, body |-> body]
RawBody(text) == [text |-> text, doc |-> None]
JsonBody(doc) == [text |-> JsonDumps(doc), doc |-> Some(doc)]

\* httpx.Response.is_success
IsSuccess(status) == status >= 200 /\ status <= 299

(***************************************************************************)
(* models/requests.py, models/responses.py                                 *)
(***************************************************************************)
\* JsonRpcRequest(method=, params=, id=): id is Union[str, int]; the default
\* factory runs only when the argument is left out, and send_request always
\* passes it.
JsonRpcRequest(method, params, request_id) ==
    IF IsNone(request_id)
    THEN Raised(Exc("ValidationError", <<"id: ", "Input should be a valid string">>, None, None))
    ELSE Returned([jsonrpc |-> "2.0", method |-> method, params |-> params,
                   id |-> Val(request_id)])

\* JsonRpcError(**d): code is an int, message a str
JsonRpcErrorValid(d) ==
    /\ d.t = "dict"
    /\ HasKey(d, "code") /\ Get(d, "code").t = "int"
    /\ HasKey(d, "message") /\ Get(d, "message").t = "str"

\* JsonRpcResponse(**response_data)
JsonRpcResponse(data) ==
    IF data.t # "dict"
    THEN Raised(Exc("TypeError", <<"argument after ** must be a mapping">>, None, None))
    ELSE IF HasKey(data, "jsonrpc") /\ Get(data, "jsonrpc").t # "str"
    THEN Raised(Exc("ValidationError", <<"jsonrpc: ", "Input should be a valid string">>, None, None))
    ELSE IF HasKey(data, "id") /\ Get(data, "id").t \notin {"str", "int", "null"}
    THEN Raised(Exc("ValidationError", <<"id: ", "Input should be a valid string">>, None, None))
    ELSE IF HasKey(data, "error") /\ Get(data, "error").t # "null"
            /\ ~JsonRpcErrorValid(Get(data, "error"))
    THEN Raised(Exc("ValidationError", <<"error: ", "Input should be a valid dictionary">>, None, None))
    ELSE Returned(
        [result |-> IF HasKey(data, "result") /\ Get(data, "result").t # "null"
                    THEN Some(Get(data, "result")) ELSE None,
         error  |-> IF HasKey(data, "error") /\ Get(data, "error").t # "null"
                    THEN Some([code |-> Get(Get(data, "error"), "code").n,
                               message |-> Get(Get(data, "error"), "message").s])
                    ELSE None,
         id     |-> IF HasKey(data, "id") /\ Get(data, "id").t # "null"
                    THEN Some(Get(data, "id")) ELSE None])

(***************************************************************************)
(* core/connection.py                                                      *)
(***************************************************************************)
\* a transport that sends whether or not it has been closed
PostIsSentAlways(closed) == TRUE

\* Whether self._client.post puts a request on the wire: a closed
\* httpx.Client refuses to send.
PostIsSent(closed) == ~closed

\* The body of the try block of send_request, lines 108-129: the response it
\* returns or the exception raised inside it.
SendRequestTry(closed, http) ==
    IF closed
    THEN Raised(Exc("RuntimeError",
                    <<"Cannot send a request, as the client has been closed.">>, None, None))
    ELSE IF http.kind = "request_error"
    THEN Raised(Exc("RequestError", http.text, None, None))
    ELSE IF ~IsSuccess(http.status)
    \* raise_for_status(); the text kept here is the one line 133 formats
    \* from e.response
    THEN Raised(Exc("HTTPStatusError",
                    <<"HTTP error ", ToString(http.status), ": ">> \o http.body.text,
                    None, None))
    ELSE IF Strip(http.body.text) = <<>>
    THEN Raised(A2AConnectionError(<<"Empty response from server">>, None, None))
    ELSE IF IsNone(http.body.doc)
    THEN Raised(Exc("JSONDecodeError", <<"Expecting value">>, None, None))
    ELSE LET parsed == JsonRpcResponse(Val(http.body.doc))
         IN  IF parsed.kind = "raise" THEN parsed
             ELSE IF ~IsNone(parsed.v.error)
             THEN Raised(A2AConnectionError(
                      <<"JSON-RPC error: ">> \o Val(parsed.v.error).message,
                      Some(Val(parsed.v.error).code), None))
             ELSE parsed

\* except clauses without the last one: what they do not name escapes
SendRequestExceptNamedOnly(e) ==
    CASE e.type = "HTTPStatusError" ->
             A2AConnectionError(e.message, None, Some(e))
      [] e.type = "RequestError" ->
             A2AConnectionError(<<"Request error: ">> \o e.message, None, Some(e))
      [] e.type = "JSONDecodeError" ->
             A2AConnectionError(<<"Invalid JSON response: ">> \o e.message, None, Some(e))
      [] OTHER -> e

\* The except clauses of send_request, lines 131-140, tried in order.  The
\* last one, `except Exception`, also catches an A2AConnectionError raised
\* inside the try block.
SendRequestExcept(e) ==
    CASE e.type = "HTTPStatusError" ->
             A2AConnectionError(e.message, None, Some(e))
      [] e.type = "RequestError" ->
             A2AConnectionError(<<"Request error: ">> \o e.message, None, Some(e))
      [] e.type = "JSONDecodeError" ->
             A2AConnectionError(<<"Invalid JSON response: ">> \o e.message, None, Some(e))
      [] OTHER ->
             A2AConnectionError(<<"Unexpected error: ">> \o e.message, None, Some(e))

\* A2AConnection.send_request: the envelope is built before the try block,
\* so a failure to build it is not translated.
SendRequest(closed, method, params, request_id, http) ==
    LET rpc_request == JsonRpcRequest(method, params, request_id) IN
    IF rpc_request.kind = "raise" THEN rpc_request
    ELSE LET tried == SendRequestTry(closed, http)
         IN  IF tried.kind = "raise" THEN Raised(SendRequestExcept(tried.exc))
             ELSE tried

\* a health check that takes any response for a healthy agent
HealthCheckAnyResponse(closed, http) ==
    ~closed /\ http.kind = "response"

\* A2AConnection.health_check
HealthCheck(closed, http) ==
    IF closed \/ http.kind = "request_error" THEN FALSE
    ELSE http.status \in {200, 404, 405}


(***************************************************************************)
(* core/session.py: the data classes                                       *)
(***************************************************************************)
EmptyDict == JDict(<<>>)

\* `metadata or {}`: None and the empty dict both give a fresh empty dict
OrEmptyDict(metadata) ==
    IF IsNone(metadata) \/ Val(metadata).items = <<>> THEN EmptyDict ELSE Val(metadata)

\* ConversationTurn(turn_id=, input_text=, output_text=, error=, metadata=)
ConversationTurn(turn_id, input_text, output_text, error, metadata, clock) ==
    [turn_id |-> turn_id, input_text |-> input_text, output_text |-> output_text,
     timestamp |-> clock, metadata |-> metadata, error |-> error]

\* Session(session_id=, agent_url=, metadata=)
Session(session_id, agent_url, metadata, clock) ==
    [session_id |-> session_id, agent_url |-> agent_url, created_at |-> clock,
     last_activity |-> clock, turns |-> <<>>, metadata |-> metadata,
     is_active |-> TRUE]

\* str(uuid.uuid4()): the n-th token drawn
Uuid(n) == "u" \o ToString(n)

\* Session.is_expired(timeout_minutes), with datetime.now() = clock
IsExpired(session, timeout_minutes, clock) ==
    clock - session.last_activity > timeout_minutes

\* Session.get_conversation_history(max_turns): turns[-max_turns:] is the
\* whole list when max_turns is 0 (the slice [-0:] starts at index 0) or
\* exceeds the length
GetConversationHistory(session, max_turns) ==
    IF IsNone(max_turns) THEN session.turns
    ELSE IF session.turns = <<>> THEN <<>>
    ELSE LET n == Len(session.turns)
             m == Val(max_turns)
             first == IF m = 0 \/ m >= n THEN 1 ELSE n - m + 1
         IN  SubSeq(session.turns, first, n)

(***************************************************************************)
(* core/session.py: the registry, a dict kept as the sequence of its        *)
(* <<session_id, Session reference>> items in insertion order.  A Session   *)
(* reference is an index into heap.                                         *)
(***************************************************************************)
Keys(reg) == {reg[i][1] : i \in 1..Len(reg)}
Refs(reg) == {reg[i][2] : i \in 1..Len(reg)}

\* session_id in self._sessions
Contains(reg, session_id) == session_id \in Keys(reg)

\* self._sessions.get(session_id)
DictGet(reg, session_id) ==
    IF Contains(reg, session_id)
    THEN Some(reg[CHOOSE i \in 1..Len(reg) : reg[i][1] = session_id][2])
    ELSE None

\* self._sessions[session_id] = session
DictSet(reg, session_id, ref) ==
    IF Contains(reg, session_id)
    THEN [i \in 1..Len(reg) |->
             IF reg[i][1] = session_id THEN <<session_id, ref>> ELSE reg[i]]
    ELSE Append(reg, <<session_id, ref>>)

\* del self._sessions[session_id]
DictDel(reg, session_id) == SelectSeq(reg, LAMBDA item : item[1] # session_id)

\* dict.update(other), on JSON dicts
RECURSIVE DictUpdate(_, _)
DictUpdate(d, other) ==
    IF other.items = <<>> THEN d
    ELSE LET k == Head(other.items)[1]
             v == Head(other.items)[2]
             d1 == IF HasKey(d, k)
                   THEN JDict([i \in 1..Len(d.items) |->
                                  IF d.items[i][1] = k THEN <<k, v>> ELSE d.items[i]])
                   ELSE JDict(Append(d.items, <<k, v>>))
         IN  DictUpdate(d1, JDict(Tail(other.items)))


(***************************************************************************)
(* Threads.  A thread is idle, or inside one call: pc is the place it has   *)
(* reached, op the method the caller invoked, the other fields the          *)
(* arguments and local variables of the frames in progress.  A finished     *)
(* call rests at pc = "ret" with its result in ret until the caller takes   *)
(* it.  Four fields record facts about the call for the properties and    *)
(* are read by no action: pre, the number of turns the session had when    *)
(* send_message was called; fresh, whether the id was absent from the      *)
(* registry when get_or_create_session was called; racing, whether another *)
(* thread was then inside get_or_create_session for the same absent id;    *)
(* removed, the Session objects this call has taken out of the registry.   *)
(***************************************************************************)
Idle ==
    [pc |-> "idle", op |-> "none",
     session_id |-> None, agent_url |-> "", metadata |-> None, message |-> "",
     timeout_minutes |-> None, timeout |-> 0, max_turns |-> None,
     request_id |-> None, params |-> None,
     session |-> None, turn |-> None, clock |-> None,
     items |-> <<>>, expired |-> <<>>, count |-> 0,
     http |-> None, outcome |-> None, sent |-> 0, req |-> None,
     pre |-> 0, fresh |-> FALSE, racing |-> FALSE, removed |-> <<>>,
     ret |-> None]

Begin(op, pc) == [Idle EXCEPT !.op = op, !.pc = pc]

Finish(r, result) == [r EXCEPT !.pc = "ret", !.ret = Some(result)]

IsIdle(t) == th[t].pc = "idle"
At(t, pc) == th[t].pc = pc
LockFree == lock = None
HoldsLock(t) == lock = Some(t)

\* A call that may construct a Session or draw a uuid starts only while the
\* bound leaves room; calls already under way always run to their end.
RoomForSession == Len(heap) < MaxObjs
RoomForUuid == uuids < MaxUuid

(***************************************************************************)
(* SessionManager.create_session, lines 103-133                            *)
(***************************************************************************)
ValueError(session_id) ==
    Exc("ValueError", <<"Session ", session_id, " already exists">>, None, None)

\* create_session without the duplicate check: the entry is overwritten
CreateSessionOverwrites(reg, hp, session_id, agent_url, metadata, clock) ==
    [outcome  |-> Returned(Len(hp) + 1),
     sessions |-> DictSet(reg, session_id, Len(hp) + 1),
     heap     |-> Append(hp, Session(session_id, agent_url,
                                     OrEmptyDict(metadata), clock))]

\* create_session that returns the new Session without storing it
CreateSessionNotStored(reg, hp, session_id, agent_url, metadata, clock) ==
    IF Contains(reg, session_id)
    THEN [outcome |-> Raised(ValueError(session_id)), sessions |-> reg, heap |-> hp]
    ELSE [outcome  |-> Returned(Len(hp) + 1),
          sessions |-> reg,
          heap     |-> Append(hp, Session(session_id, agent_url,
                                          OrEmptyDict(metadata), clock))]

\* create_session that puts back the Session object last removed under the
\* id, when there is one
CreateSessionRevives(reg, hp, session_id, agent_url, metadata, clock) ==
    LET old == {ref \in 1..Len(hp) : hp[ref].session_id = session_id}
    IN  IF Contains(reg, session_id)
        THEN [outcome |-> Raised(ValueError(session_id)), sessions |-> reg, heap |-> hp]
        ELSE IF old # {}
        THEN LET ref == CHOOSE r \in old : \A o \in old : o <= r
             IN  [outcome  |-> Returned(ref),
                  sessions |-> DictSet(reg, session_id, ref),
                  heap     |-> [hp EXCEPT ![ref].is_active = TRUE]]
        ELSE [outcome  |-> Returned(Len(hp) + 1),
              sessions |-> DictSet(reg, session_id, Len(hp) + 1),
              heap     |-> Append(hp, Session(session_id, agent_url,
                                              OrEmptyDict(metadata), clock))]

\* the `with self._lock` block, lines 122-133
CreateSessionLocked(reg, hp, session_id, agent_url, metadata, clock) ==
    IF Contains(reg, session_id)
    THEN [outcome |-> Raised(ValueError(session_id)), sessions |-> reg, heap |-> hp]
    ELSE [outcome  |-> Returned(Len(hp) + 1),
          sessions |-> DictSet(reg, session_id, Len(hp) + 1),
          heap     |-> Append(hp, Session(session_id, agent_url,
                                          OrEmptyDict(metadata), clock))]

\* a single except clause, which reports every cause as unexpected
SendMessageExceptUnclassified(e) ==
    SyncClientError(<<"Unexpected error: ">> \o e.message, Some(e))

\* SyncClient.send_message, lines 148-157: the error raised in place of e
SendMessageExcept(e) ==
    IF e.type = "A2AConnectionError"
    THEN SyncClientError(<<"Connection error: ">> \o e.message, Some(e))
    ELSE SyncClientError(<<"Unexpected error: ">> \o e.message, Some(e))

\* get_or_create_session returns `session` to whoever called it
GocReturn(r, ref) ==
    IF r.op = "send_message"
    THEN [r EXCEPT !.pc = "add_turn", !.session = Some(ref), !.clock = None]
    ELSE Finish([r EXCEPT !.session = Some(ref), !.clock = None], Returned(ref))

\* create_session raises inside get_or_create_session; in send_message no
\* turn exists yet, so the except clause only translates the error
GocRaise(r, e) ==
    IF r.op = "send_message"
    THEN Finish(r, Raised(SendMessageExcept(e)))
    ELSE Finish(r, Raised(e))

CallCreateSession(t) ==
    /\ IsIdle(t)
    /\ RoomForSession
    /\ \E sid \in SessionIds, md \in {None, Some(JDict(<< <<"k", JStr(<<"v">>)>> >>))} :
          th' = [th EXCEPT ![t] = [Begin("create_session", "create_session") EXCEPT
                     !.session_id = Some(sid), !.agent_url = AgentUrl, !.metadata = md]]
    /\ UNCHANGED <<now, uuids, default_timeout, sessions, lock, heap, client_closed>>

\* session_id is None: lines 119-120 draw a uuid
CallCreateSessionAuto(t) ==
    /\ IsIdle(t)
    /\ RoomForSession
    /\ RoomForUuid
    /\ uuids' = uuids + 1
    /\ th' = [th EXCEPT ![t] = [Begin("create_session", "create_session") EXCEPT
                 !.session_id = Some(Uuid(uuids + 1)), !.agent_url = AgentUrl]]
    /\ UNCHANGED <<now, default_timeout, sessions, lock, heap, client_closed>>

\* create_session that leaves the lock held when it raises ValueError
CreateSessionRaiseKeepsLock(t) ==
    /\ At(t, "create_session")
    /\ LockFree
    /\ LET r == th[t]
           b == CreateSessionLocked(sessions, heap, Val(r.session_id), r.agent_url,
                                    r.metadata, now)
       IN  /\ sessions' = b.sessions
           /\ heap' = b.heap
           /\ th' = [th EXCEPT ![t] =
                 CASE r.op = "create_session" -> Finish(r, b.outcome)
                   [] r.op = "client_create_session" ->
                        \* SyncClient.create_session, lines 199-206
                        IF b.outcome.kind = "raise"
                        THEN Finish(r, Raised(SyncClientError(b.outcome.exc.message,
                                                              Some(b.outcome.exc))))
                        ELSE Finish(r, b.outcome)
                   [] OTHER ->
                        IF b.outcome.kind = "raise"
                        THEN GocRaise(r, b.outcome.exc)
                        ELSE GocReturn(r, b.outcome.v)]
           /\ lock' = IF b.outcome.kind = "raise" THEN Some(t) ELSE lock
    /\ UNCHANGED <<now, uuids, default_timeout, client_closed>>

CreateSession(t) ==
    /\ At(t, "create_session")
    /\ LockFree
    /\ LET r == th[t]
           b == CreateSessionLocked(sessions, heap, Val(r.session_id), r.agent_url,
                                    r.metadata, now)
       IN  /\ sessions' = b.sessions
           /\ heap' = b.heap
           /\ th' = [th EXCEPT ![t] =
                 CASE r.op = "create_session" -> Finish(r, b.outcome)
                   [] r.op = "client_create_session" ->
                        \* SyncClient.create_session, lines 199-206
                        IF b.outcome.kind = "raise"
                        THEN Finish(r, Raised(SyncClientError(b.outcome.exc.message,
                                                              Some(b.outcome.exc))))
                        ELSE Finish(r, b.outcome)
                   [] OTHER ->
                        IF b.outcome.kind = "raise"
                        THEN GocRaise(r, b.outcome.exc)
                        ELSE GocReturn(r, b.outcome.v)]
    /\ UNCHANGED <<now, uuids, default_timeout, lock, client_closed>>

(***************************************************************************)
(* SessionManager.get_session, lines 135-145, and get_or_create_session,    *)
(* lines 147-169                                                            *)
(***************************************************************************)
CallGetSession(t) ==
    /\ IsIdle(t)
    /\ \E sid \in SessionIds :
          th' = [th EXCEPT ![t] = [Begin("get_session", "get_session") EXCEPT
                     !.session_id = Some(sid)]]
    /\ UNCHANGED <<now, uuids, default_timeout, sessions, lock, heap, client_closed>>

CallGetOrCreateSession(t) ==
    /\ IsIdle(t)
    /\ RoomForSession
    /\ \E sid \in SessionIds :
          th' = [th EXCEPT ![t] = [Begin("get_or_create_session", "get_session") EXCEPT
                     !.session_id = Some(sid), !.agent_url = AgentUrl,
                     !.fresh = ~Contains(sessions, sid),
                     !.racing = /\ ~Contains(sessions, sid)
                                /\ \E u \in Threads \ {t} :
                                      /\ th[u].op = "get_or_create_session"
                                      /\ th[u].pc # "ret"
                                      /\ th[u].session_id = Some(sid)
                                      /\ th[u].fresh]]
    /\ UNCHANGED <<now, uuids, default_timeout, sessions, lock, heap, client_closed>>

\* SyncClient.get_conversation_history, lines 176-180, after get_session
HistoryAfterGet(r, found) ==
    IF IsNone(found)
    THEN Finish(r, Raised(SyncClientError(
             <<"Session ", Val(r.session_id), " not found">>, None)))
    ELSE [r EXCEPT !.pc = "history", !.session = found]

\* the `with self._lock` block of get_session, and what its caller does
\* with the result
GetSession(t) ==
    /\ At(t, "get_session")
    /\ LockFree
    /\ LET r == th[t]
           found == DictGet(sessions, Val(r.session_id))
       IN  th' = [th EXCEPT ![t] =
               CASE r.op = "get_session" -> Finish([r EXCEPT !.session = found],
                                                   Returned(found))
                 [] r.op = "get_conversation_history" -> HistoryAfterGet(r, found)
                 [] OTHER ->
                      \* get_or_create_session, lines 163-166
                      IF IsNone(found)
                      THEN [r EXCEPT !.pc = "create_session"]
                      ELSE [r EXCEPT !.pc = "touch", !.session = found]]
    /\ UNCHANGED <<now, uuids, default_timeout, sessions, lock, heap, client_closed>>

\* line 168, right-hand side: datetime.now()
Touch(t) ==
    /\ At(t, "touch")
    /\ th' = [th EXCEPT ![t] = [@ EXCEPT !.pc = "touch_store", !.clock = Some(now)]]
    /\ UNCHANGED <<now, uuids, default_timeout, sessions, lock, heap, client_closed>>

\* line 168, the store into session.last_activity, and line 169
TouchStore(t) ==
    /\ At(t, "touch_store")
    /\ LET r == th[t] IN
       /\ heap' = [heap EXCEPT ![Val(r.session)].last_activity = Val(r.clock)]
       /\ th' = [th EXCEPT ![t] = GocReturn(r, Val(r.session))]
    /\ UNCHANGED <<now, uuids, default_timeout, sessions, lock, client_closed>>

(***************************************************************************)
(* SessionManager.close_session, lines 171-186                             *)
(***************************************************************************)
CallCloseSession(t) ==
    /\ IsIdle(t)
    /\ \E sid \in SessionIds :
          th' = [th EXCEPT ![t] = [Begin("close_session", "close_session") EXCEPT
                     !.session_id = Some(sid)]]
    /\ UNCHANGED <<now, uuids, default_timeout, sessions, lock, heap, client_closed>>

\* close_session that answers True whether or not the id is known
CloseSessionAlwaysTrue(t) ==
    /\ At(t, "close_session")
    /\ LockFree
    /\ LET r == th[t]
           found == DictGet(sessions, Val(r.session_id))
       IN  IF IsNone(found)
           THEN /\ th' = [th EXCEPT ![t] = Finish(r, Returned(TRUE))]
                /\ UNCHANGED lock
           ELSE /\ th' = [th EXCEPT ![t] = [r EXCEPT !.pc = "close_deactivate",
                                                     !.session = found]]
                /\ lock' = Some(t)
    /\ UNCHANGED <<now, uuids, default_timeout, sessions, heap, client_closed>>

\* lines 180-182: the lock is taken and the session looked up; an unknown
\* id leaves the block at once with False (line 186)
CloseSession(t) ==
    /\ At(t, "close_session")
    /\ LockFree
    /\ LET r == th[t]
           found == DictGet(sessions, Val(r.session_id))
       IN  IF IsNone(found)
           THEN /\ th' = [th EXCEPT ![t] = Finish(r, Returned(FALSE))]
                /\ UNCHANGED lock
           ELSE /\ th' = [th EXCEPT ![t] = [r EXCEPT !.pc = "close_deactivate",
                                                     !.session = found]]
                /\ lock' = Some(t)
    /\ UNCHANGED <<now, uuids, default_timeout, sessions, heap, client_closed>>

\* close_session with the flag cleared in a critical section of its own
CloseDeactivateThenUnlock(t) ==
    /\ At(t, "close_deactivate")
    /\ heap' = [heap EXCEPT ![Val(th[t].session)].is_active = FALSE]
    /\ lock' = None
    /\ th' = [th EXCEPT ![t] = [@ EXCEPT !.pc = "close_delete"]]
    /\ UNCHANGED <<now, uuids, default_timeout, sessions, client_closed>>

\* close_session that also empties the turn list of the session
CloseDeactivateDropsTurns(t) ==
    /\ At(t, "close_deactivate")
    /\ heap' = [heap EXCEPT ![Val(th[t].session)] =
                    [@ EXCEPT !.is_active = FALSE, !.turns = <<>>]]
    /\ th' = [th EXCEPT ![t] = [@ EXCEPT !.pc = "close_delete"]]
    /\ UNCHANGED <<now, uuids, default_timeout, sessions, lock, client_closed>>

\* line 183
CloseDeactivate(t) ==
    /\ At(t, "close_deactivate")
    /\ heap' = [heap EXCEPT ![Val(th[t].session)].is_active = FALSE]
    /\ th' = [th EXCEPT ![t] = [@ EXCEPT !.pc = "close_delete"]]
    /\ UNCHANGED <<now, uuids, default_timeout, sessions, lock, client_closed>>

\* the object a `del self._sessions[session_id]` takes out of the registry,
\* when the entry is still the one the caller looked up
StillStored(reg, session_id, session) ==
    IF DictGet(reg, Val(session_id)) = session THEN session ELSE <<>>

\* lines 184-185, and the lock is released on the way out
CloseDelete(t) ==
    /\ At(t, "close_delete")
    /\ sessions' = DictDel(sessions, Val(th[t].session_id))
    /\ lock' = None
    /\ th' = [th EXCEPT ![t] =
           Finish([@ EXCEPT !.removed = StillStored(sessions, th[t].session_id,
                                                    th[t].session)],
                  Returned(TRUE))]
    /\ UNCHANGED <<now, uuids, default_timeout, heap, client_closed>>


(***************************************************************************)
(* SessionManager.cleanup_expired_sessions, lines 188-207                  *)
(***************************************************************************)
\* line 197: `timeout_minutes or self.default_timeout`; `or` takes its right
\* operand whenever the left one is falsy, which None and 0 both are
ResolveTimeout(timeout_minutes, default) ==
    IF IsNone(timeout_minutes) \/ Val(timeout_minutes) = 0
    THEN default
    ELSE Val(timeout_minutes)

\* lines 197-198
CallCleanupExpiredSessions(t) ==
    /\ IsIdle(t)
    /\ \E tm \in {None} \cup {Some(m) : m \in 0..MaxTimeout} :
          th' = [th EXCEPT ![t] = [Begin("cleanup_expired_sessions", "cleanup") EXCEPT
                     !.timeout_minutes = tm,
                     !.timeout = ResolveTimeout(tm, default_timeout)]]
    /\ UNCHANGED <<now, uuids, default_timeout, sessions, lock, heap, client_closed>>

\* a sweep that copies the items without taking the lock
CleanupWithoutLock(t) ==
    /\ At(t, "cleanup")
    /\ th' = [th EXCEPT ![t] = [@ EXCEPT !.pc = "cleanup_loop", !.items = sessions]]
    /\ UNCHANGED <<now, uuids, default_timeout, sessions, lock, heap, client_closed>>

\* lines 200-201: the lock is taken and the items are copied
Cleanup(t) ==
    /\ At(t, "cleanup")
    /\ LockFree
    /\ lock' = Some(t)
    /\ th' = [th EXCEPT ![t] = [@ EXCEPT !.pc = "cleanup_loop", !.items = sessions]]
    /\ UNCHANGED <<now, uuids, default_timeout, sessions, heap, client_closed>>

\* lines 202-205, one round of the loop
CleanupStep(t) ==
    /\ At(t, "cleanup_loop")
    /\ th[t].items # <<>>
    /\ LET r == th[t]
           session_id == Head(r.items)[1]
           session == Head(r.items)[2]
       IN  IF IsExpired(heap[session], r.timeout, now)
           THEN /\ heap' = [heap EXCEPT ![session].is_active = FALSE]
                /\ sessions' = DictDel(sessions, session_id)
                /\ th' = [th EXCEPT ![t] = [r EXCEPT !.items = Tail(r.items),
                                 !.expired = Append(r.expired, session_id),
                                 !.removed = @ \o StillStored(sessions, Some(session_id),
                                                              Some(session))]]
           ELSE /\ th' = [th EXCEPT ![t] = [r EXCEPT !.items = Tail(r.items)]]
                /\ UNCHANGED <<heap, sessions>>
    /\ UNCHANGED <<now, uuids, default_timeout, lock, client_closed>>

\* the loop is over: the lock is released and line 207 returns the list
CleanupReturn(t) ==
    /\ At(t, "cleanup_loop")
    /\ th[t].items = <<>>
    /\ lock' = None
    /\ th' = [th EXCEPT ![t] = Finish(@, Returned(@.expired))]
    /\ UNCHANGED <<now, uuids, default_timeout, sessions, heap, client_closed>>

(***************************************************************************)
(* SessionManager.list_active_sessions, lines 209-219, and                  *)
(* get_session_count, lines 221-228                                         *)
(***************************************************************************)
\* [session_id for session_id, session in items if session.is_active]
ActiveIds(reg, hp) ==
    LET active == SelectSeq(reg, LAMBDA item : hp[item[2]].is_active)
    IN  [i \in 1..Len(active) |-> active[i][1]]

CallListActiveSessions(t) ==
    /\ IsIdle(t)
    /\ th' = [th EXCEPT ![t] = Begin("list_active_sessions", "list_active_sessions")]
    /\ UNCHANGED <<now, uuids, default_timeout, sessions, lock, heap, client_closed>>

ListActiveSessions(t) ==
    /\ At(t, "list_active_sessions")
    /\ LockFree
    /\ th' = [th EXCEPT ![t] = Finish(@, Returned(ActiveIds(sessions, heap)))]
    /\ UNCHANGED <<now, uuids, default_timeout, sessions, lock, heap, client_closed>>

CallGetSessionCount(t) ==
    /\ IsIdle(t)
    /\ th' = [th EXCEPT ![t] = Begin("get_session_count", "get_session_count")]
    /\ UNCHANGED <<now, uuids, default_timeout, sessions, lock, heap, client_closed>>

GetSessionCount(t) ==
    /\ At(t, "get_session_count")
    /\ LockFree
    /\ th' = [th EXCEPT ![t] = Finish(@, Returned(Len(ActiveIds(sessions, heap))))]
    /\ UNCHANGED <<now, uuids, default_timeout, sessions, lock, heap, client_closed>>

(***************************************************************************)
(* SessionManager.clear_all_sessions, lines 230-241                        *)
(***************************************************************************)
CallClearAllSessions(t) ==
    /\ IsIdle(t)
    /\ th' = [th EXCEPT ![t] = Begin("clear_all_sessions", "clear_all")]
    /\ UNCHANGED <<now, uuids, default_timeout, sessions, lock, heap, client_closed>>

\* a clear that counts the sessions without taking the lock
ClearAllWithoutLock(t) ==
    /\ At(t, "clear_all")
    /\ th' = [th EXCEPT ![t] = [@ EXCEPT !.pc = "clear_loop", !.items = sessions,
                                         !.count = Len(sessions)]]
    /\ UNCHANGED <<now, uuids, default_timeout, sessions, lock, heap, client_closed>>

\* lines 236-237
ClearAll(t) ==
    /\ At(t, "clear_all")
    /\ LockFree
    /\ lock' = Some(t)
    /\ th' = [th EXCEPT ![t] = [@ EXCEPT !.pc = "clear_loop", !.items = sessions,
                                         !.count = Len(sessions)]]
    /\ UNCHANGED <<now, uuids, default_timeout, sessions, heap, client_closed>>

\* lines 238-239, one round of the loop
ClearStep(t) ==
    /\ At(t, "clear_loop")
    /\ th[t].items # <<>>
    /\ heap' = [heap EXCEPT ![Head(th[t].items)[2]].is_active = FALSE]
    /\ th' = [th EXCEPT ![t] = [@ EXCEPT !.items = Tail(@)]]
    /\ UNCHANGED <<now, uuids, default_timeout, sessions, lock, client_closed>>

\* lines 240-241, and the lock is released on the way out; SyncClient.close
\* (line 59) drops the count
ClearReturn(t) ==
    /\ At(t, "clear_loop")
    /\ th[t].items = <<>>
    /\ sessions' = <<>>
    /\ lock' = None
    /\ th' = [th EXCEPT ![t] =
           LET r == [@ EXCEPT !.removed = [i \in 1..Len(sessions) |-> sessions[i][2]]]
           IN  IF r.op = "close" THEN Finish(r, Returned(None))
               ELSE Finish(r, Returned(r.count))]
    /\ UNCHANGED <<now, uuids, default_timeout, heap, client_closed>>

(***************************************************************************)
(* SyncClient.send_message, lines 115-140: from the transport's answer to   *)
(* the TaskResponse                                                         *)
(***************************************************************************)
TypeError(message) == Exc("TypeError", message, None, None)
AttributeError(message) == Exc("AttributeError", message, None, None)

\* `key in value` for a JSON value on the right: key lookup in a dict,
\* membership in a list, substring search in a str, TypeError otherwise
PyIn(key, value) ==
    CASE value.t = "dict" -> Returned(HasKey(value, key))
      [] value.t = "list" ->
             Returned(\E i \in 1..Len(value.items) :
                         /\ value.items[i].t = "str"
                         /\ value.items[i].s = <<key>>)
      [] value.t = "str"  -> Returned(\E i \in 1..Len(value.s) : value.s[i] = key)
      [] OTHER -> Raised(TypeError(<<"argument of type is not iterable">>))

\* value[key] with a str key: only a dict can be indexed by a str
PyIndex(value, key) ==
    IF value.t = "dict" THEN Returned(Get(value, key))
    ELSE Raised(TypeError(<<"indices must be integers">>))

\* what `for x in value` runs over: the items of a list, the keys of a
\* dict, the characters of a str; anything else is not iterable
PyIter(value) ==
    CASE value.t = "list" -> Returned(value.items)
      [] value.t = "dict" ->
             Returned([i \in 1..Len(value.items) |-> JStr(<<value.items[i][1]>>)])
      [] value.t = "str"  -> Returned([i \in 1..Len(value.s) |-> JStr(<<value.s[i]>>)])
      [] OTHER -> Raised(TypeError(<<"object is not iterable">>))

\* lines 125-126 for one part, output_text being the text gathered so far
ExtractPart(part, output_text) ==
    IF part.t # "dict"
    THEN Raised(AttributeError(<<"object has no attribute 'get'">>))
    ELSE IF /\ HasKey(part, "kind")
            /\ Get(part, "kind").t = "str"
            /\ Get(part, "kind").s = <<"text">>
            /\ HasKey(part, "text")
    THEN IF Get(part, "text").t = "str"
         THEN Returned(output_text \o Get(part, "text").s \o <<"\n">>)
         ELSE Raised(TypeError(<<"unsupported operand type(s) for +">>))
    ELSE Returned(output_text)

\* lines 124-126: the loop over the parts of one artifact
RECURSIVE ExtractParts(_, _)
ExtractParts(parts, output_text) ==
    IF parts = <<>> THEN Returned(output_text)
    ELSE LET one == ExtractPart(Head(parts), output_text)
         IN  IF one.kind = "raise" THEN one
             ELSE ExtractParts(Tail(parts), one.v)

\* lines 123-126 for one artifact
ExtractArtifact(artifact, output_text) ==
    LET has == PyIn("parts", artifact) IN
    IF has.kind = "raise" THEN has
    ELSE IF ~has.v THEN Returned(output_text)
    ELSE LET parts == PyIndex(artifact, "parts") IN
         IF parts.kind = "raise" THEN parts
         ELSE LET it == PyIter(parts.v) IN
              IF it.kind = "raise" THEN it
              ELSE ExtractParts(it.v, output_text)

\* lines 122-126: the loop over the artifacts
RECURSIVE ExtractArtifacts(_, _)
ExtractArtifacts(artifacts, output_text) ==
    IF artifacts = <<>> THEN Returned(output_text)
    ELSE LET one == ExtractArtifact(Head(artifacts), output_text)
         IN  IF one.kind = "raise" THEN one
             ELSE ExtractArtifacts(Tail(artifacts), one.v)

\* lines 120-126: the text gathered from result, before strip()
ExtractText(result) ==
    LET has == PyIn("artifacts", result) IN
    IF has.kind = "raise" THEN has
    ELSE IF ~has.v THEN Returned(<<>>)
    ELSE LET artifacts == PyIndex(result, "artifacts") IN
         IF artifacts.kind = "raise" THEN artifacts
         ELSE LET it == PyIter(artifacts.v) IN
              IF it.kind = "raise" THEN it
              ELSE ExtractArtifacts(it.v, <<>>)

\* strip() alone, an empty text left as it is
OutputTextWithoutFallback(result, gathered) == Strip(gathered)

\* lines 128-131: strip(), and str(result) when nothing is left
OutputText(result, gathered) ==
    IF Strip(gathered) = <<>> THEN PyStr(result) ELSE Strip(gathered)

\* lines 134-140: TaskResponse(...); metadata is Optional[Dict[str, Any]]
TaskResponse(task_id, session_id, output, metadata) ==
    IF metadata.t # "dict"
    THEN Raised(Exc("ValidationError",
                    <<"metadata: ", "Input should be a valid dictionary">>, None, None))
    ELSE Returned([task_id |-> task_id, session_id |-> session_id,
                   status |-> "completed", output |-> Some(output),
                   error_message |-> None, metadata |-> Some(metadata)])

\* lines 109-140: the TaskResponse built from the outcome of send_request,
\* or the exception that reaches the except clauses
BuildTaskResponse(outcome, task_id, session_id) ==
    IF outcome.kind = "raise" THEN outcome
    ELSE IF IsNone(outcome.v.result)
    THEN Raised(SyncClientError(<<"Agent returned empty result">>, None))
    ELSE LET result == Val(outcome.v.result)
             gathered == ExtractText(result)
         IN  IF gathered.kind = "raise" THEN gathered
             ELSE TaskResponse(task_id, session_id,
                               OutputText(result, gathered.v), result)

\* lines 97-103: the params of message/send; the messageId is a uuid that
\* nothing keeps after the request is sent
MessageSendParams(message) ==
    JDict(<< <<"message", JDict(<<
        <<"role", JStr(<<"user">>)>>,
        <<"parts", JList(<< JDict(<< <<"kind", JStr(<<"text">>)>>,
                                      <<"text", JStr(<<message>>)>> >>) >>)>>,
        <<"messageId", JStr(<<"uuid4">>)>> >>)>> >>)

(***************************************************************************)
(* The answers the environment may give to an HTTP request                 *)
(***************************************************************************)
RpcReply(members) ==
    HttpResponse(200, JsonBody(JDict(
        << <<"jsonrpc", JStr(<<"2.0">>)>>, <<"id", JStr(<<"x">>)>> >> \o members)))
ResultReply(result) == RpcReply(<< <<"result", result>> >>)
ErrorObject(code, message) ==
    JDict(<< <<"code", JInt(code)>>, <<"message", JStr(message)>> >>)
ErrorReply(code, message) == RpcReply(<< <<"error", ErrorObject(code, message)>> >>)

Part(kind, text) == JDict(<< <<"kind", JStr(<<kind>>)>>, <<"text", text>> >>)
Artifact(parts) == JDict(<< <<"parts", JList(parts)>> >>)
WithArtifacts(artifacts) == JDict(<< <<"artifacts", JList(artifacts)>> >>)

Results ==
    { WithArtifacts(<< Artifact(<< Part("text", JStr(<<"hi">>)) >>) >>),
      WithArtifacts(<< Artifact(<< Part("text", JStr(<<" ", "hi", " ">>)) >>) >>),
      WithArtifacts(<< Artifact(<< Part("text", JStr(<<" ">>)) >>) >>),
      WithArtifacts(<< Artifact(<< Part("text", JStr(<<"a">>)),
                                   Part("data", JStr(<<"d">>)),
                                   Part("text", JStr(<<"b">>)) >>),
                       Artifact(<< Part("text", JStr(<<"c">>)) >>) >>),
      WithArtifacts(<< Artifact(<< Part("text", JInt(5)) >>) >>),
      WithArtifacts(<< Artifact(<< JStr(<<"hi">>) >>) >>),
      WithArtifacts(<< JDict(<<>>), JInt(3) >>),
      WithArtifacts(<<>>),
      JDict(<< <<"artifacts", JInt(5)>> >>),
      JDict(<< <<"artifacts", JNull>> >>),
      JDict(<< <<"status", JStr(<<"done">>)>> >>),
      EmptyDict,
      JStr(<<"ok">>),
      JStr(<<>>),
      JInt(7),
      JList(<<>>) }

FailureReplies ==
    { RequestFailure(<<"connection refused">>),
      HttpResponse(500, RawBody(<<"boom">>)),
      HttpResponse(404, RawBody(<<>>)),
      HttpResponse(302, RawBody(<<>>)),
      HttpResponse(200, RawBody(<<>>)),
      HttpResponse(200, RawBody(<<" ", "\n">>)),
      HttpResponse(200, RawBody(<<"<html>">>)),
      HttpResponse(200, JsonBody(JList(<<>>))),
      HttpResponse(204, JsonBody(JInt(1))),
      ErrorReply(0 - 32601, <<"Method not found">>),
      ErrorReply(0, <<>>),
      RpcReply(<< <<"error", ErrorObject(7, <<"busy">>)>>,
                  <<"result", EmptyDict>> >>),
      RpcReply(<< <<"error", JStr(<<"bad">>)>> >>) }

NullReplies ==
    { ResultReply(JNull),
      RpcReply(<<>>),
      RpcReply(<< <<"error", JNull>> >>) }

HttpReplies ==
    FailureReplies \cup NullReplies \cup {ResultReply(result) : result \in Results}

\* a few answers of each kind, for the specifications that keep many turns
FewReplies ==
    { RequestFailure(<<"connection refused">>),
      ErrorReply(0 - 32601, <<"Method not found">>),
      ResultReply(JNull),
      ResultReply(EmptyDict),
      ResultReply(JStr(<<"ok">>)),
      ResultReply(WithArtifacts(<< Artifact(<< Part("text", JStr(<<" ">>)) >>) >>)),
      ResultReply(WithArtifacts(<< Artifact(<< Part("text", JStr(<<" ", "hi", " ">>)) >>) >>)) }

(***************************************************************************)
(* SyncClient.send_message, lines 61-157                                   *)
(***************************************************************************)
\* the turns, at the call, of the session registered under session_id
TurnsBefore(session_id) ==
    IF Contains(sessions, session_id)
    THEN Len(heap[Val(DictGet(sessions, session_id))].turns)
    ELSE 0

CallSendMessage(t) ==
    /\ IsIdle(t)
    /\ RoomForUuid
    /\ \E sid \in SessionIds, message \in Messages :
          /\ RoomForSession \/ Contains(sessions, sid)
          /\ th' = [th EXCEPT ![t] = [Begin("send_message", "get_session") EXCEPT
                     !.session_id = Some(sid), !.agent_url = AgentUrl,
                     !.message = message, !.pre = TurnsBefore(sid)]]
    /\ UNCHANGED <<now, uuids, default_timeout, sessions, lock, heap, client_closed>>

\* session_id is None: lines 84-85 draw a uuid
CallSendMessageAuto(t) ==
    /\ IsIdle(t)
    /\ RoomForUuid
    /\ RoomForSession
    /\ uuids' = uuids + 1
    /\ \E message \in Messages :
          th' = [th EXCEPT ![t] = [Begin("send_message", "get_session") EXCEPT
                     !.session_id = Some(Uuid(uuids + 1)), !.agent_url = AgentUrl,
                     !.message = message, !.pre = 0]]
    /\ UNCHANGED <<now, default_timeout, sessions, lock, heap, client_closed>>

\* Session.add_turn, lines 52-60: the turn is built and appended
AddTurn(t) ==
    /\ At(t, "add_turn")
    /\ LET r == th[t]
           session == Val(r.session)
           turn == ConversationTurn(Uuid(uuids + 1), r.message, None, None,
                                    EmptyDict, now)
       IN  /\ heap' = [heap EXCEPT ![session].turns = Append(@, turn)]
           /\ th' = [th EXCEPT ![t] = [r EXCEPT !.pc = "add_turn_clock",
                         !.turn = Some(Len(heap[session].turns) + 1)]]
    /\ uuids' = uuids + 1
    /\ UNCHANGED <<now, default_timeout, sessions, lock, client_closed>>

\* Session.add_turn, line 61, right-hand side: datetime.now()
AddTurnClock(t) ==
    /\ At(t, "add_turn_clock")
    /\ th' = [th EXCEPT ![t] = [@ EXCEPT !.pc = "add_turn_store", !.clock = Some(now)]]
    /\ UNCHANGED <<now, uuids, default_timeout, sessions, lock, heap, client_closed>>

\* Session.add_turn, line 61, the store, and line 62
AddTurnStore(t) ==
    /\ At(t, "add_turn_store")
    /\ LET r == th[t] IN
       /\ heap' = [heap EXCEPT ![Val(r.session)].last_activity = Val(r.clock)]
       /\ th' = [th EXCEPT ![t] = [r EXCEPT !.pc = "send", !.clock = None]]
    /\ UNCHANGED <<now, uuids, default_timeout, sessions, lock, client_closed>>

\* the first turn of the session, whoever opened it
TurnOfFirst(r) == heap[Val(r.session)].turns[1]

\* the turn a send_message in progress has opened
TurnOf(r) == heap[Val(r.session)].turns[Val(r.turn)]

\* A2AConnection.send_request, as send_message calls it (lines 97-113) or as
\* a caller of the connection does; the environment picks the answer
Send(t, replies) ==
    /\ At(t, "send")
    /\ \E http \in replies :
          LET r == th[t]
              params == IF r.op = "send_message"
                        THEN Some(MessageSendParams(r.message)) ELSE r.params
              request_id == IF r.op = "send_message"
                            THEN Some(JStr(<<TurnOf(r).turn_id>>)) ELSE r.request_id
              rpc_request == JsonRpcRequest("message/send", params, request_id)
              outcome == SendRequest(client_closed, "message/send", params,
                                     request_id, http)
              posted == rpc_request.kind = "return" /\ PostIsSent(client_closed)
              after == [r EXCEPT !.outcome = Some(outcome),
                                 !.http = IF posted THEN Some(http) ELSE None,
                                 !.sent = IF posted THEN @ + 1 ELSE @,
                                 !.req = IF posted THEN Some(rpc_request.v) ELSE None]
          IN  th' = [th EXCEPT ![t] =
                  IF r.op = "send_message"
                  THEN [after EXCEPT !.pc = "finish"]
                  ELSE Finish(after, outcome)]
    /\ UNCHANGED <<now, uuids, default_timeout, sessions, lock, heap, client_closed>>

\* a finalisation that merges the metadata and forgets the output
TurnCompletedWithoutOutput(turn, task_response) ==
    [turn EXCEPT !.metadata = DictUpdate(@, Val(task_response.metadata))]

\* lines 143-144: the turn takes the output and the metadata
TurnCompleted(turn, task_response) ==
    [turn EXCEPT !.output_text = task_response.output,
                 !.metadata = DictUpdate(@, Val(task_response.metadata))]

\* an except clause that raises without writing on the turn
TurnFailedUnrecorded(turn, e) == turn

\* an except clause that writes str(e) where the output belongs
TurnFailedAsOutput(turn, e) == [turn EXCEPT !.output_text = Some(e.message)]

\* lines 150-151 and 155-156: the turn takes str(e)
TurnFailed(turn, e) == [turn EXCEPT !.error = Some(e.message)]

\* a send_message that tries the transport a second time after a failure
FinishTurnRetries(t) ==
    /\ At(t, "finish")
    /\ LET r == th[t]
           session == Val(r.session)
           turn == Val(r.turn)
           built == BuildTaskResponse(Val(r.outcome), TurnOf(r).turn_id,
                                      Val(r.session_id))
       IN  IF built.kind = "return"
           THEN /\ heap' = [heap EXCEPT ![session].turns[turn] =
                                [@ EXCEPT !.output_text = built.v.output]]
                /\ th' = [th EXCEPT ![t] = Finish(r, built)]
           ELSE IF r.sent < 2
           THEN /\ th' = [th EXCEPT ![t] = [r EXCEPT !.pc = "send"]]
                /\ UNCHANGED heap
           ELSE /\ heap' = [heap EXCEPT ![session].turns[turn] =
                                [@ EXCEPT !.error = Some(built.exc.message)]]
                /\ th' = [th EXCEPT ![t] = Finish(r, Raised(SendMessageExcept(built.exc)))]
    /\ UNCHANGED <<now, uuids, default_timeout, sessions, lock, client_closed>>

\* lines 115-157 after send_request: the result is turned into a
\* TaskResponse and written on the turn, or the error is written on the
\* turn and raised as SyncClientError
FinishTurn(t) ==
    /\ At(t, "finish")
    /\ LET r == th[t]
           session == Val(r.session)
           turn == Val(r.turn)
           built == BuildTaskResponse(Val(r.outcome), TurnOf(r).turn_id,
                                      Val(r.session_id))
       IN  IF built.kind = "return"
           THEN /\ heap' = [heap EXCEPT ![session].turns[turn] =
                                TurnCompleted(@, built.v)]
                /\ th' = [th EXCEPT ![t] = Finish(r, built)]
           ELSE /\ heap' = [heap EXCEPT ![session].turns[turn] =
                                TurnFailed(@, built.exc)]
                /\ th' = [th EXCEPT ![t] = Finish(r, Raised(SendMessageExcept(built.exc)))]
    /\ UNCHANGED <<now, uuids, default_timeout, sessions, lock, client_closed>>

(***************************************************************************)
(* The other operations of SyncClient and A2AConnection                    *)
(***************************************************************************)
\* SyncClient.get_conversation_history, lines 159-180
CallGetConversationHistory(t) ==
    /\ IsIdle(t)
    /\ \E sid \in SessionIds, n \in {None} \cup {Some(m) : m \in 0..MaxUuid} :
          th' = [th EXCEPT ![t] = [Begin("get_conversation_history", "get_session") EXCEPT
                     !.session_id = Some(sid), !.max_turns = n]]
    /\ UNCHANGED <<now, uuids, default_timeout, sessions, lock, heap, client_closed>>

\* line 180
History(t) ==
    /\ At(t, "history")
    /\ th' = [th EXCEPT ![t] =
           Finish(@, Returned(GetConversationHistory(heap[Val(@.session)], @.max_turns)))]
    /\ UNCHANGED <<now, uuids, default_timeout, sessions, lock, heap, client_closed>>

\* SyncClient.create_session, lines 182-206
CallClientCreateSession(t) ==
    /\ IsIdle(t)
    /\ RoomForSession
    /\ \E sid \in SessionIds :
          th' = [th EXCEPT ![t] = [Begin("client_create_session", "create_session") EXCEPT
                     !.session_id = Some(sid), !.agent_url = AgentUrl]]
    /\ UNCHANGED <<now, uuids, default_timeout, sessions, lock, heap, client_closed>>

\* A2AConnection.send_request called directly
CallSendRequest(t) ==
    /\ IsIdle(t)
    /\ \E rid \in {None, Some(JStr(<<"r1">>)), Some(JInt(7))},
          params \in {None, Some(EmptyDict)} :
          th' = [th EXCEPT ![t] = [Begin("send_request", "send") EXCEPT
                     !.request_id = rid, !.params = params]]
    /\ UNCHANGED <<now, uuids, default_timeout, sessions, lock, heap, client_closed>>

\* A2AConnection.health_check, lines 194-205 (SyncClient.health_check
\* delegates to it)
CallHealthCheck(t) ==
    /\ IsIdle(t)
    /\ \E http \in {RequestFailure(<<"connection refused">>)}
                   \cup {HttpResponse(status, RawBody(<<>>)) :
                            status \in {200, 204, 301, 404, 405, 500}} :
          th' = [th EXCEPT ![t] =
                  Finish([Begin("health_check", "health_check") EXCEPT
                              !.http = IF client_closed THEN None ELSE Some(http)],
                         Returned(HealthCheck(client_closed, http)))]
    /\ UNCHANGED <<now, uuids, default_timeout, sessions, lock, heap, client_closed>>

\* A2AConnection.close, lines 69-72
CallConnectionClose(t) ==
    /\ IsIdle(t)
    /\ client_closed' = TRUE
    /\ th' = [th EXCEPT ![t] = Finish(Begin("connection_close", "close"), Returned(None))]
    /\ UNCHANGED <<now, uuids, default_timeout, sessions, lock, heap>>

\* SyncClient.close, lines 56-59: the connection is closed, then the
\* registry is cleared
CallClose(t) ==
    /\ IsIdle(t)
    /\ client_closed' = TRUE
    /\ th' = [th EXCEPT ![t] = Begin("close", "clear_all")]
    /\ UNCHANGED <<now, uuids, default_timeout, sessions, lock, heap>>

(***************************************************************************)
(* The environment, the initial state and the specifications               *)
(***************************************************************************)
\* time passes
Tick ==
    /\ now < MaxClock
    /\ now' = now + 1
    /\ UNCHANGED <<uuids, default_timeout, sessions, lock, heap, client_closed, th>>

\* the caller takes the result of a finished call
Return(t) ==
    /\ At(t, "ret")
    /\ th' = [th EXCEPT ![t] = Idle]
    /\ UNCHANGED <<now, uuids, default_timeout, sessions, lock, heap, client_closed>>

\* SyncClient.__init__ / SessionManager.__init__ / A2AConnection.__init__
Init ==
    /\ now = 0
    /\ uuids = 0
    /\ default_timeout \in 1..MaxTimeout
    /\ sessions = <<>>
    /\ lock = None
    /\ heap = <<>>
    /\ client_closed = FALSE
    /\ th = [t \in Threads |-> Idle]

StoreCall(t) ==
    \/ CallCreateSession(t)
    \/ CallCreateSessionAuto(t)
    \/ CallGetSession(t)
    \/ CallGetOrCreateSession(t)
    \/ CallCloseSession(t)
    \/ CallCleanupExpiredSessions(t)
    \/ CallListActiveSessions(t)
    \/ CallGetSessionCount(t)
    \/ CallClearAllSessions(t)

StoreStep(t) ==
    \/ CreateSession(t)
    \/ GetSession(t)
    \/ Touch(t)
    \/ TouchStore(t)
    \/ CloseSession(t)
    \/ CloseDeactivate(t)
    \/ CloseDelete(t)
    \/ Cleanup(t)
    \/ CleanupStep(t)
    \/ CleanupReturn(t)
    \/ ListActiveSessions(t)
    \/ GetSessionCount(t)
    \/ ClearAll(t)
    \/ ClearStep(t)
    \/ ClearReturn(t)

\* get_or_create_session and Session.add_turn, as send_message runs them
ResolveStep(t) ==
    \/ GetSession(t)
    \/ CreateSession(t)
    \/ Touch(t)
    \/ TouchStore(t)

TurnStep(t) ==
    \/ AddTurn(t)
    \/ AddTurnClock(t)
    \/ AddTurnStore(t)
    \/ FinishTurn(t)

\* One caller at a time drives the session registry.
Next ==
    \/ Tick
    \/ StoreCall("t1")
    \/ StoreStep("t1")
    \/ Return("t1")

Spec == Init /\ [][Next]_vars

\* One caller at a time sends messages, reads nothing else, and closes
\* sessions; the agent gives one answer of each kind.
TurnNext ==
    \/ CallSendMessage("t1")
    \/ CallSendMessageAuto("t1")
    \/ ResolveStep("t1")
    \/ TurnStep("t1")
    \/ Send("t1", FewReplies)
    \/ CallCloseSession("t1")
    \/ CloseSession("t1")
    \/ CloseDeactivate("t1")
    \/ CloseDelete("t1")
    \/ Return("t1")

TurnSpec == Init /\ [][TurnNext]_vars

\* One caller at a time creates sessions and sends messages, and the agent
\* gives every answer of HttpReplies; one turn fewer than in TurnSpec is
\* opened.
AnswerNext ==
    \/ CallClientCreateSession("t1")
    \/ uuids < MaxUuid - 1 /\ CallSendMessage("t1")
    \/ uuids < MaxUuid - 1 /\ CallSendMessageAuto("t1")
    \/ ResolveStep("t1")
    \/ TurnStep("t1")
    \/ Send("t1", HttpReplies)
    \/ Return("t1")

AnswerSpec == Init /\ [][AnswerNext]_vars

\* One caller at a time uses the connection directly.
ConnNext ==
    \/ CallSendRequest("t1")
    \/ Send("t1", HttpReplies)
    \/ CallHealthCheck("t1")
    \/ CallConnectionClose("t1")
    \/ Return("t1")

ConnSpec == Init /\ [][ConnNext]_vars

\* Two callers drive the session registry concurrently.
ConcNext ==
    \E t \in Threads :
        \/ CallGetSession(t)
        \/ CallGetOrCreateSession(t)
        \/ CallCloseSession(t)
        \/ CallListActiveSessions(t)
        \/ ResolveStep(t)
        \/ CloseSession(t)
        \/ CloseDeactivate(t)
        \/ CloseDelete(t)
        \/ ListActiveSessions(t)
        \/ Return(t)

ConcSpec == Init /\ [][ConcNext]_vars

\* Two callers close, sweep and clear sessions concurrently while time
\* passes; one of them also creates sessions.
SweepNext ==
    \/ Tick
    \/ CallClientCreateSession("t1")
    \/ \E t \in Threads :
        \/ CreateSession(t)
        \/ CallCloseSession(t)
        \/ CloseSession(t)
        \/ CloseDeactivate(t)
        \/ CloseDelete(t)
        \/ CallCleanupExpiredSessions(t)
        \/ Cleanup(t)
        \/ CleanupStep(t)
        \/ CleanupReturn(t)
        \/ CallClearAllSessions(t)
        \/ ClearAll(t)
        \/ ClearStep(t)
        \/ ClearReturn(t)
        \/ Return(t)

SweepSpec == Init /\ [][SweepNext]_vars

\* Two callers create and look up sessions while the registry is cleared.
ClearNext ==
    \E t \in Threads :
        \/ CallCreateSession(t)
        \/ CreateSession(t)
        \/ CallGetSession(t)
        \/ GetSession(t)
        \/ CallClearAllSessions(t)
        \/ ClearAll(t)
        \/ ClearStep(t)
        \/ ClearReturn(t)
        \/ Return(t)

ClearSpec == Init /\ [][ClearNext]_vars

\* One caller looks sessions up, creating them when absent, while another
\* sends messages and time passes; every request fails to connect.
ActivityNext ==
    \/ Tick
    \/ CallGetOrCreateSession("t1")
    \/ CallSendMessage("t2")
    \/ \E t \in Threads :
        \/ ResolveStep(t)
        \/ TurnStep(t)
        \/ Send(t, {RequestFailure(<<"connection refused">>)})
        \/ Return(t)

ActivitySpec == Init /\ [][ActivityNext]_vars

\* One caller at a time sends messages and requests and closes the
\* connection or the client, before, between or after them; a request the
\* agent receives is refused or answered with an empty result.
CloseNext ==
    \/ CallSendRequest("t1")
    \/ CallSendMessage("t1")
    \/ ResolveStep("t1")
    \/ TurnStep("t1")
    \/ Send("t1", {RequestFailure(<<"connection refused">>), ResultReply(EmptyDict)})
    \/ CallConnectionClose("t1")
    \/ CallClose("t1")
    \/ ClearAll("t1")
    \/ ClearStep("t1")
    \/ ClearReturn("t1")
    \/ Return("t1")

CloseSpec == Init /\ [][CloseNext]_vars

\* One caller sends messages while another looks up, and so may create,
\* the same sessions; a request is refused or answered with an empty
\* result.
OnceNext ==
    \/ CallGetOrCreateSession("t1")
    \/ CallSendMessage("t2")
    \/ \E t \in Threads :
        \/ ResolveStep(t)
        \/ TurnStep(t)
        \/ Send(t, {RequestFailure(<<"connection refused">>), ResultReply(EmptyDict)})
        \/ Return(t)

OnceSpec == Init /\ [][OnceNext]_vars

\* One caller at a time sends messages and reads conversation histories; a
\* request is refused or answered with an empty result.
HistoryNext ==
    \/ CallSendMessage("t1")
    \/ ResolveStep("t1")
    \/ TurnStep("t1")
    \/ Send("t1", {RequestFailure(<<"connection refused">>), ResultReply(EmptyDict)})
    \/ CallGetConversationHistory("t1")
    \/ History("t1")
    \/ Return("t1")

HistorySpec == Init /\ [][HistoryNext]_vars

\* Two callers run every operation of the session registry on the session
\* s1 concurrently.
LockCall(t) ==
    \/ /\ CallCreateSession(t)
       /\ th'[t].session_id = Some("s1")
       /\ th'[t].metadata = None
    \/ /\ CallGetSession(t)
       /\ th'[t].session_id = Some("s1")
    \/ /\ CallGetOrCreateSession(t)
       /\ th'[t].session_id = Some("s1")
    \/ /\ CallCloseSession(t)
       /\ th'[t].session_id = Some("s1")
    \/ /\ CallCleanupExpiredSessions(t)
       /\ th'[t].timeout_minutes = None
    \/ CallListActiveSessions(t)
    \/ CallGetSessionCount(t)
    \/ CallClearAllSessions(t)

LockNext ==
    \E t \in Threads :
        \/ LockCall(t)
        \/ StoreStep(t)
        \/ Return(t)

LockSpec == Init /\ [][LockNext]_vars

\* Fair scheduling: a thread that can take a step again and again takes one
\* in the end, so a thread waiting for the lock gets it at one of its
\* releases.  threading.Lock promises no order among contenders; with
\* weak fairness alone a waiter can be overtaken at every release.
FairLockSpec == LockSpec /\ \A t \in Threads : SF_vars(StoreStep(t))

\* One caller sends the message m1 on the session s1 and looks s1 up while
\* another closes s1, sweeps with the default threshold and clears the
\* registry, and time passes; every request is refused.
RaceNext ==
    \/ Tick
    \/ /\ CallSendMessage("t1")
       /\ th'["t1"].session_id = Some("s1")
       /\ th'["t1"].message = "m1"
    \/ /\ CallGetOrCreateSession("t1")
       /\ th'["t1"].session_id = Some("s1")
    \/ ResolveStep("t1")
    \/ TurnStep("t1")
    \/ Send("t1", {RequestFailure(<<"connection refused">>)})
    \/ /\ CallCloseSession("t2")
       /\ th'["t2"].session_id = Some("s1")
    \/ CloseSession("t2")
    \/ CloseDeactivate("t2")
    \/ CloseDelete("t2")
    \/ /\ CallCleanupExpiredSessions("t2")
       /\ th'["t2"].timeout_minutes = None
    \/ Cleanup("t2")
    \/ CleanupStep("t2")
    \/ CleanupReturn("t2")
    \/ CallClearAllSessions("t2")
    \/ ClearAll("t2")
    \/ ClearStep("t2")
    \/ ClearReturn("t2")
    \/ \E t \in Threads : Return(t)

RaceSpec == Init /\ [][RaceNext]_vars

\* One caller at a time sends the message m1 on the session s1, looks s1
\* up, closes it, sweeps with the default threshold and clears the registry
\* while time passes; a request is refused or answered with an empty result.
AppendNext ==
    \/ Tick
    \/ /\ CallSendMessage("t1")
       /\ th'["t1"].session_id = Some("s1")
       /\ th'["t1"].message = "m1"
    \/ /\ CallGetOrCreateSession("t1")
       /\ th'["t1"].session_id = Some("s1")
    \/ ResolveStep("t1")
    \/ TurnStep("t1")
    \/ Send("t1", {RequestFailure(<<"connection refused">>), ResultReply(EmptyDict)})
    \/ /\ CallCloseSession("t1")
       /\ th'["t1"].session_id = Some("s1")
    \/ CloseSession("t1")
    \/ CloseDeactivate("t1")
    \/ CloseDelete("t1")
    \/ /\ CallCleanupExpiredSessions("t1")
       /\ th'["t1"].timeout_minutes = None
    \/ Cleanup("t1")
    \/ CleanupStep("t1")
    \/ CleanupReturn("t1")
    \/ CallClearAllSessions("t1")
    \/ ClearAll("t1")
    \/ ClearStep("t1")
    \/ ClearReturn("t1")
    \/ Return("t1")

AppendSpec == Init /\ [][AppendNext]_vars

(***************************************************************************)
(* Properties                                                              *)
(***************************************************************************)
IsCall(t, op) == th[t].op = op
HasReturned(t, op) == th[t].op = op /\ th[t].pc = "ret"
Result(t) == Val(th[t].ret)

\* C1: two threads that call get_or_create_session concurrently with the
\* same id, absent from the registry, both return normally, and both return
\* the one Session object that the registry holds under that id.
C1_ConcurrentGetOrCreateShares ==
    \A t \in Threads : \A u \in Threads \ {t} :
        ( /\ HasReturned(t, "get_or_create_session")
          /\ HasReturned(u, "get_or_create_session")
          /\ th[t].session_id = th[u].session_id
          /\ th[t].fresh
          /\ th[u].racing )
        => /\ Result(t).kind = "return"
           /\ Result(u).kind = "return"
           /\ Result(t).v = Result(u).v
           /\ DictGet(sessions, Val(th[t].session_id)) = Some(Result(t).v)

\* C9: close_session removes the session and clears its flag as one step
\* for every observer: whenever the lock is free, the sessions of the
\* registry are exactly the active ones, so get_session and
\* list_active_sessions, which read the registry only under the lock, never
\* hand out a registered session that is inactive; and a session is
\* inactive from the moment close_session has removed it.
C9_CloseIsAtomic ==
    /\ LockFree =>
          /\ \A ref \in 1..Len(heap) : heap[ref].is_active <=> ref \in Refs(sessions)
          /\ \A t \in Threads :
                /\ At(t, "get_session") =>
                      LET found == DictGet(sessions, Val(th[t].session_id))
                      IN  IsNone(found) \/ heap[Val(found)].is_active
                /\ At(t, "list_active_sessions") =>
                      Len(ActiveIds(sessions, heap)) = Len(sessions)
    /\ \A ref \in 1..Len(heap) : ref \notin Refs(sessions) => ~heap[ref].is_active
    /\ \A t \in Threads :
          (HasReturned(t, "close_session") /\ Result(t).v) =>
              /\ ~heap[Val(th[t].session)].is_active
              /\ Val(th[t].session) \notin Refs(sessions)

\* close_session has the lock, has cleared the flag and has not yet deleted
\* the entry, while the other thread waits for the lock to look the same id
\* up
C9_Witness ==
    \E t \in Threads : \E u \in Threads \ {t} :
        /\ At(t, "close_delete")
        /\ HoldsLock(t)
        /\ ~heap[Val(th[t].session)].is_active
        /\ Val(th[t].session) \in Refs(sessions)
        /\ At(u, "get_session")
        /\ th[u].session_id = th[t].session_id

\* C2: a sweep that was given a threshold removes a session if and only if
\* the time of the sweep minus the session's last_activity exceeds that
\* threshold, whatever the threshold, 0 included; the default timeout plays
\* no part when a threshold is given.
C2_SweepUsesGivenThreshold ==
    [][\A t \in Threads :
          ( /\ At(t, "cleanup_loop")
            /\ th[t].items # <<>>
            /\ th'[t].items = Tail(th[t].items)
            /\ ~IsNone(th[t].timeout_minutes) )
          => LET session_id == Head(th[t].items)[1]
                 session == Head(th[t].items)[2]
             IN  (~Contains(sessions', session_id))
                     <=> (now - heap[session].last_activity
                              > Val(th[t].timeout_minutes))]_vars

\* C7: create_session with an id that is in the registry raises ValueError
\* and changes neither the registry nor any Session object.
C7_DuplicateCreateFails ==
    [][\A t \in Threads :
          ( /\ At(t, "create_session")
            /\ th'[t].pc # "create_session"
            /\ Contains(sessions, Val(th[t].session_id)) )
          => /\ th'[t].pc = "ret"
             /\ Val(th'[t].ret).kind = "raise"
             /\ Val(th'[t].ret).exc.type = "ValueError"
             /\ sessions' = sessions
             /\ heap' = heap]_vars

\* create_session has failed on an id whose session was created with
\* metadata and is still registered
C7_Witness ==
    \E t \in Threads :
        /\ HasReturned(t, "create_session")
        /\ Result(t).kind = "raise"
        /\ Result(t).exc.type = "ValueError"
        /\ Contains(sessions, Val(th[t].session_id))
        /\ heap[Val(DictGet(sessions, Val(th[t].session_id)))].metadata # EmptyDict

\* C8: create_session with an id that is not in the registry adds exactly
\* one entry, for a new Session, and returns that Session; a get_session of
\* the id right after finds that same Session, with that session_id, no
\* turns and is_active true; the other entries and the other Session
\* objects are as they were.
C8_CreateThenGet ==
    [][\A t \in Threads :
          ( /\ At(t, "create_session")
            /\ th'[t].pc # "create_session"
            /\ ~Contains(sessions, Val(th[t].session_id)) )
          => LET session_id == Val(th[t].session_id)
                 new == Len(heap) + 1
             IN  /\ Val(th'[t].ret) = Returned(new)
                 /\ Len(heap') = new
                 /\ SubSeq(heap', 1, Len(heap)) = heap
                 /\ Len(sessions') = Len(sessions) + 1
                 /\ SubSeq(sessions', 1, Len(sessions)) = sessions
                 /\ DictGet(sessions', session_id) = Some(new)
                 /\ heap'[new].session_id = session_id
                 /\ heap'[new].turns = <<>>
                 /\ heap'[new].is_active]_vars

\* create_session has returned a new Session, registered next to an older
\* one
C8_Witness ==
    \E t \in Threads :
        /\ HasReturned(t, "create_session")
        /\ Result(t).kind = "return"
        /\ Len(sessions) >= 2
        /\ DictGet(sessions, Val(th[t].session_id)) = Some(Result(t).v)

\* C10: close_session returns whether the id was in the registry; when it
\* was not, the registry and every Session object are as they were.
C10_CloseUnknownChangesNothing ==
    [][\A t \in Threads :
          ( /\ th[t].op = "close_session"
            /\ th[t].pc # "ret"
            /\ th'[t].pc = "ret" )
          => /\ Val(th'[t].ret) = Returned(Contains(sessions, Val(th[t].session_id)))
             /\ ~Contains(sessions, Val(th[t].session_id)) =>
                   /\ sessions' = sessions
                   /\ heap' = heap
                   /\ lock' = lock]_vars

\* close_session has returned False on an unknown id while another session
\* is registered
C10_Witness ==
    \E t \in Threads :
        /\ HasReturned(t, "close_session")
        /\ Result(t) = Returned(FALSE)
        /\ sessions # <<>>

\* the answer is a 2xx JSON-RPC body with an error member
IsErrorReply(http) ==
    /\ http.kind = "response"
    /\ IsSuccess(http.status)
    /\ ~IsNone(http.body.doc)
    /\ Val(http.body.doc).t = "dict"
    /\ HasKey(Val(http.body.doc), "error")
    /\ JsonRpcErrorValid(Get(Val(http.body.doc), "error"))

\* s ends with the tokens of suffix
EndsWith(s, suffix) ==
    /\ Len(s) >= Len(suffix)
    /\ SubSeq(s, Len(s) - Len(suffix) + 1, Len(s)) = suffix

\* C3: when the answer to send_request is a 2xx JSON-RPC body with an error
\* member, the call raises A2AConnectionError whose error_code is the code
\* of that error and whose message carries its message; nothing is
\* returned.
C3_ErrorCodeReachesCaller ==
    \A t \in Threads :
        ( /\ HasReturned(t, "send_request")
          /\ ~IsNone(th[t].http)
          /\ IsErrorReply(Val(th[t].http)) )
        => LET error == Get(Val(Val(th[t].http).body.doc), "error")
           IN  /\ Result(t).kind = "raise"
               /\ Result(t).exc.type = "A2AConnectionError"
               /\ Result(t).exc.error_code = Some(Get(error, "code").n)
               /\ EndsWith(Result(t).exc.message, Get(error, "message").s)

\* the turns some send_message still has to finalise
OpenTurns ==
    { <<Val(th[t].session), Val(th[t].turn)>> :
        t \in {u \in Threads : /\ th[u].op = "send_message"
                               /\ th[u].pc \in {"add_turn_clock", "add_turn_store",
                                                "send", "finish"}} }

\* C4: no turn ever has both output_text and error, and once the
\* send_message that opened a turn has returned or raised, the turn has
\* exactly one of them, whatever the transport answered.
C4_OutputXorError ==
    \A session \in 1..Len(heap) : \A turn \in 1..Len(heap[session].turns) :
        LET has_output == ~IsNone(heap[session].turns[turn].output_text)
            has_error == ~IsNone(heap[session].turns[turn].error)
        IN  /\ ~(has_output /\ has_error)
            /\ <<session, turn>> \notin OpenTurns => (has_output \/ has_error)

\* send_message has raised after an exception that is no transport error
\* (the result could not be read), and its turn carries the error
C4_Witness ==
    \E t \in Threads :
        /\ HasReturned(t, "send_message")
        /\ ~IsNone(th[t].turn)
        /\ Result(t).kind = "raise"
        /\ Val(Result(t).exc.cause).type \in {"TypeError", "AttributeError",
                                              "ValidationError"}
        /\ ~IsNone(TurnOf(th[t]).error)
        /\ IsNone(TurnOf(th[t]).output_text)

\* C5: when send_message returns normally, the session registered under
\* its session id has exactly one turn more than at the call; that last
\* turn has the message as input_text, the returned output, not empty, as
\* output_text, and no error.
C5_SuccessAppendsOneTurn ==
    \A t \in Threads :
        (HasReturned(t, "send_message") /\ Result(t).kind = "return")
        => LET session == Val(th[t].session)
               turns == heap[session].turns
           IN  /\ DictGet(sessions, Val(th[t].session_id)) = Some(session)
               /\ Len(turns) = th[t].pre + 1
               /\ Val(th[t].turn) = Len(turns)
               /\ turns[Len(turns)].input_text = th[t].message
               /\ turns[Len(turns)].output_text = Result(t).v.output
               /\ ~IsNone(Result(t).v.output)
               /\ Val(Result(t).v.output) # <<>>
               /\ IsNone(turns[Len(turns)].error)

\* send_message has returned normally on a session that already had a turn
C5_Witness ==
    \E t \in Threads :
        /\ HasReturned(t, "send_message")
        /\ Result(t).kind = "return"
        /\ th[t].pre >= 1
        /\ Len(heap[Val(th[t].session)].turns) = th[t].pre + 1

\* send_request has raised A2AConnectionError inside this send_message
TransportFailed(r) ==
    /\ ~IsNone(r.outcome)
    /\ Val(r.outcome).kind = "raise"
    /\ Val(r.outcome).exc.type = "A2AConnectionError"

\* C6: when the transport call of send_message fails, send_message raises
\* SyncClientError, the session has exactly one turn more than at the call,
\* and that turn has an error text, not empty, and no output_text; the
\* error is on the turn when the exception leaves.
C6_FailureRecordedOnTurn ==
    \A t \in Threads :
        (HasReturned(t, "send_message") /\ TransportFailed(th[t]))
        => LET turns == heap[Val(th[t].session)].turns
           IN  /\ Result(t).kind = "raise"
               /\ Result(t).exc.type = "SyncClientError"
               /\ Len(turns) = th[t].pre + 1
               /\ Val(th[t].turn) = Len(turns)
               /\ ~IsNone(turns[Len(turns)].error)
               /\ Val(turns[Len(turns)].error) # <<>>
               /\ IsNone(turns[Len(turns)].output_text)

\* send_message has raised after a transport failure on a session that
\* already had a turn
C6_Witness ==
    \E t \in Threads :
        /\ HasReturned(t, "send_message")
        /\ TransportFailed(th[t])
        /\ th[t].pre >= 1
        /\ Result(t).kind = "raise"

\* the Session objects the call of t has taken out of the registry
RemovedBy(t) == {th[t].removed[i] : i \in 1..Len(th[t].removed)}

\* C11: the ids a sweep has gathered are, one for one, the Session objects
\* that this call itself deleted from the registry, which are then absent
\* from it, and the list it returns is that list; no Session object is
\* removed by two calls, be they sweeps, close_session or
\* clear_all_sessions.
C11_SweepReportsOwnRemovals ==
    /\ \A t \in Threads :
          th[t].op = "cleanup_expired_sessions"
          => /\ Len(th[t].expired) = Len(th[t].removed)
             /\ \A i \in 1..Len(th[t].removed) :
                   /\ th[t].expired[i] = heap[th[t].removed[i]].session_id
                   /\ th[t].removed[i] \notin Refs(sessions)
                   /\ \A j \in 1..Len(th[t].removed) :
                         th[t].removed[i] = th[t].removed[j] => i = j
             /\ th[t].pc = "ret" => Result(t) = Returned(th[t].expired)
    /\ \A t \in Threads : \A u \in Threads \ {t} :
          RemovedBy(t) \cap RemovedBy(u) = {}

\* two sweeps have returned; one removed a session that the threshold of
\* the other also makes expired, and the other reports nothing
C11_Witness ==
    \E t \in Threads : \E u \in Threads \ {t} :
        /\ HasReturned(t, "cleanup_expired_sessions")
        /\ HasReturned(u, "cleanup_expired_sessions")
        /\ th[t].removed # <<>>
        /\ \A ref \in RemovedBy(t) : IsExpired(heap[ref], th[u].timeout, now)
        /\ Result(u) = Returned(<<>>)

\* what a clear_all_sessions that has returned leaves: its count is the
\* number of Session objects it removed, all inactive and out of the registry
ClearedAreCounted ==
    \A t \in Threads :
        HasReturned(t, "clear_all_sessions")
        => /\ Result(t) = Returned(Len(th[t].removed))
           /\ \A ref \in RemovedBy(t) :
                 /\ ~heap[ref].is_active
                 /\ ref \notin Refs(sessions)

\* what a thread that does not hold the lock can see: a Session is active
\* exactly when it is in the registry
StoredIffActive ==
    LockFree => \A ref \in 1..Len(heap) : heap[ref].is_active <=> ref \in Refs(sessions)

\* C12: clear_all_sessions returns exactly the number of sessions it
\* removed, each of them inactive afterwards; the registry is empty when it
\* releases the lock; and whatever create_session and get_session calls run
\* concurrently, a thread outside the lock finds every session either in
\* the registry and active or out of it and inactive.
C12_ClearAllIsAtomic ==
    [][ /\ ClearedAreCounted'
        /\ StoredIffActive'
        /\ \A t \in Threads :
              (th[t].op = "clear_all_sessions" /\ HoldsLock(t) /\ lock' = None)
              => sessions' = <<>> ]_vars

\* a clear has returned a count of at least one, and a session another
\* thread created is in the registry, active
C12_Witness ==
    \E t \in Threads : \E u \in Threads \ {t} :
        /\ HasReturned(t, "clear_all_sessions")
        /\ Result(t).v >= 1
        /\ HasReturned(u, "create_session")
        /\ Result(u).kind = "return"
        /\ Result(u).v \in Refs(sessions)
        /\ heap[Result(u).v].is_active

\* C13: a Session object that is out of the registry is inactive, and in
\* every later state it is still out of the registry and still inactive,
\* whatever is created, closed, swept or cleared afterwards, also under the
\* same id.
C13_RemovedStaysRemoved ==
    [][ \A ref \in 1..Len(heap) :
            ref \notin Refs(sessions)
            => /\ ~heap[ref].is_active
               /\ ref \notin Refs(sessions')
               /\ ~heap'[ref].is_active ]_vars

\* a session was removed and another Session object now stands in the
\* registry under the same id
C13_Witness ==
    \E old \in 1..Len(heap) : \E new \in 1..Len(heap) :
        /\ old # new
        /\ heap[old].session_id = heap[new].session_id
        /\ old \notin Refs(sessions)
        /\ ~heap[old].is_active
        /\ DictGet(sessions, heap[new].session_id) = Some(new)
        /\ heap[new].is_active

\* C14: no step, of any thread, lowers the last_activity of a Session:
\* every write stores a value at least as large as the one it replaces.
C14_LastActivityNeverDecreases ==
    [][ \A ref \in 1..Len(heap) :
            heap'[ref].last_activity >= heap[ref].last_activity ]_vars

\* C15: a send_request called without a request id does not fail for that
\* reason: on an open transport it sends one envelope, which has an id, and
\* whatever it raises is the A2AConnectionError of the exchange.
C15_MissingIdIsGenerated ==
    \A t \in Threads :
        (HasReturned(t, "send_request") /\ IsNone(th[t].request_id))
        => /\ Result(t).kind = "raise" => Result(t).exc.type = "A2AConnectionError"
           /\ ~client_closed => (th[t].sent = 1 /\ ~IsNone(th[t].req))

\* the exchange went wrong: no connection, a status outside 2xx, an empty
\* body, a body that is no JSON, JSON that is no object, or an error member
ExchangeFailed(http) ==
    \/ http.kind = "request_error"
    \/ ~IsSuccess(http.status)
    \/ Strip(http.body.text) = <<>>
    \/ IsNone(http.body.doc)
    \/ Val(http.body.doc).t # "dict"
    \/ IsErrorReply(http)

\* C16: when the HTTP exchange of send_request goes wrong in any of these
\* ways the call raises; whatever it raises after an exchange is an
\* A2AConnectionError; and it returns a response only for a 2xx status with
\* a body that decodes to an object without an error.
C16_OnlyConnectionErrorEscapes ==
    \A t \in Threads :
        (HasReturned(t, "send_request") /\ ~IsNone(th[t].http))
        => LET http == Val(th[t].http)
           IN  /\ ExchangeFailed(http) => Result(t).kind = "raise"
               /\ Result(t).kind = "raise" => Result(t).exc.type = "A2AConnectionError"
               /\ Result(t).kind = "return"
                  => /\ http.kind = "response"
                     /\ IsSuccess(http.status)
                     /\ ~IsNone(http.body.doc)
                     /\ Val(http.body.doc).t = "dict"
                     /\ \/ ~HasKey(Val(http.body.doc), "error")
                        \/ Get(Val(http.body.doc), "error") = JNull
                     /\ IsNone(Result(t).v.error)

\* the agent answered 200 with JSON that is no object, and send_request
\* raised A2AConnectionError in place of the TypeError
C16_Witness ==
    \E t \in Threads :
        /\ HasReturned(t, "send_request")
        /\ ~IsNone(th[t].http)
        /\ Val(th[t].http).kind = "response"
        /\ Val(th[t].http).status = 200
        /\ ~IsNone(Val(th[t].http).body.doc)
        /\ Val(Val(th[t].http).body.doc).t = "list"
        /\ Result(t).kind = "raise"
        /\ Result(t).exc.type = "A2AConnectionError"
        /\ Val(Result(t).exc.cause).type = "TypeError"

\* C17: health_check returns and never raises; what it returns is a
\* boolean, true exactly when a response came back with status 200, 404 or
\* 405, and false for any other status, a connection failure or a closed
\* transport.
C17_HealthCheckIsBoolean ==
    \A t \in Threads :
        HasReturned(t, "health_check")
        => /\ Result(t).kind = "return"
           /\ Result(t).v \in BOOLEAN
           /\ Result(t).v <=> /\ ~IsNone(th[t].http)
                              /\ Val(th[t].http).kind = "response"
                              /\ Val(th[t].http).status \in {200, 404, 405}

\* health_check has answered False on a closed transport
C17_Witness ==
    \E t \in Threads :
        /\ HasReturned(t, "health_check")
        /\ client_closed
        /\ IsNone(th[t].http)
        /\ Result(t) = Returned(FALSE)

\* C18: once the transport is closed, a send_request or send_message
\* puts no HTTP request on the wire and ends by raising, never by returning
\* an outcome; A2AConnection.close and SyncClient.close themselves return
\* normally, on a fresh transport and on one already closed.
C18_ClosedTransportFailsFast ==
    \A t \in Threads :
        /\ (client_closed /\ th[t].op \in {"send_request", "send_message"})
           => /\ th[t].sent = 0
              /\ IsNone(th[t].http)
              /\ th[t].pc = "ret" => Result(t).kind = "raise"
        /\ (th[t].op \in {"connection_close", "close"} /\ th[t].pc = "ret")
           => /\ client_closed
              /\ Result(t) = Returned(None)

\* on a closed transport send_message has opened a turn and raised, with
\* the error on the turn and nothing sent
C18_Witness ==
    \E t \in Threads :
        /\ client_closed
        /\ HasReturned(t, "send_message")
        /\ ~IsNone(th[t].turn)
        /\ ~IsNone(TurnOf(th[t]).error)
        /\ th[t].sent = 0
        /\ Result(t).kind = "raise"

\* C19: a send_message call puts at most one request on the wire; it
\* invokes the transport not at all while it has opened no turn; and once
\* send_request has given its outcome, success or failure, the call only
\* finishes: the outcome is kept and nothing more is sent.
C19_TransportInvokedAtMostOnce ==
    [][ \A t \in Threads :
            th'[t].op = "send_message"
            => /\ th'[t].sent <= 1
               /\ IsNone(th'[t].turn) => (th'[t].sent = 0 /\ IsNone(th'[t].outcome))
               /\ (th[t].op = "send_message" /\ ~IsNone(th[t].outcome))
                  => /\ th'[t].outcome = th[t].outcome
                     /\ th'[t].sent = th[t].sent
                     /\ th'[t].pc \in {"finish", "ret"} ]_vars

\* one send_message has raised after its single request was refused, and
\* another has raised before opening a turn, with nothing sent
C19_Witness ==
    \E t \in Threads :
        /\ HasReturned(t, "send_message")
        /\ Result(t).kind = "raise"
        /\ IsNone(th[t].turn)
        /\ th[t].sent = 0
        /\ \E session \in 1..Len(heap) : \E turn \in 1..Len(heap[session].turns) :
              ~IsNone(heap[session].turns[turn].error)

\* C20: in a send_message call the turn is appended before the transport
\* is invoked; the id of the request handed to the transport is the turn_id
\* of the turn this call appended; and the outcome returned has that
\* turn_id as task_id and the resolved session id as session_id.
C20_RequestIdIsTurnId ==
    \A t \in Threads :
        (th[t].op = "send_message" /\ ~IsNone(th[t].outcome))
        => LET session == heap[Val(th[t].session)]
               appended == session.turns[th[t].pre + 1]
           IN  /\ ~IsNone(th[t].turn)
               /\ Len(session.turns) = th[t].pre + 1
               /\ appended.input_text = th[t].message
               /\ ~IsNone(th[t].req) => Val(th[t].req).id = JStr(<<appended.turn_id>>)
               /\ (th[t].pc = "ret" /\ Result(t).kind = "return")
                  => /\ Result(t).v.task_id = appended.turn_id
                     /\ Result(t).v.session_id = Val(th[t].session_id)
                     /\ session.session_id = Val(th[t].session_id)

\* send_message has returned an outcome for the second turn of a session
C20_Witness ==
    \E t \in Threads :
        /\ HasReturned(t, "send_message")
        /\ Result(t).kind = "return"
        /\ th[t].pre >= 1
        /\ ~IsNone(th[t].req)
        /\ Result(t).v.task_id = heap[Val(th[t].session)].turns[th[t].pre + 1].turn_id

\* C21: whatever makes send_message fail, it raises SyncClientError with
\* the original exception as its cause; the text is "Connection error: "
\* followed by the cause's text exactly when the transport call raised
\* A2AConnectionError, and "Unexpected error: " followed by it otherwise, a
\* null result included; the cause's text is the error of the open turn.
C21_FailureIsClassified ==
    \A t \in Threads :
        (HasReturned(t, "send_message") /\ Result(t).kind = "raise")
        => LET e == Result(t).exc
               prefix == IF TransportFailed(th[t]) THEN "Connection error: "
                         ELSE "Unexpected error: "
           IN  /\ e.type = "SyncClientError"
               /\ ~IsNone(e.cause)
               /\ e.message = <<prefix>> \o Val(e.cause).message
               /\ TransportFailed(th[t]) => Val(e.cause) = Val(th[t].outcome).exc
               /\ ~IsNone(th[t].turn) => TurnOf(th[t]).error = Some(Val(e.cause).message)

\* the agent sent a null result: send_message raised the unexpected kind
\* with the empty-result error as cause and on the turn
C21_Witness ==
    \E t \in Threads :
        /\ HasReturned(t, "send_message")
        /\ Result(t).kind = "raise"
        /\ ~TransportFailed(th[t])
        /\ Val(th[t].outcome).kind = "return"
        /\ IsNone(Val(th[t].outcome).v.result)
        /\ Result(t).exc.message = <<"Unexpected error: ", "Agent returned empty result">>
        /\ TurnOf(th[t]).error = Some(<<"Agent returned empty result">>)

\* the text a part contributes to the reference: its text and a newline
\* when it is a part of kind "text" with a str text, nothing otherwise
ReferencePart(part) ==
    IF /\ part.t = "dict"
       /\ HasKey(part, "kind") /\ Get(part, "kind") = JStr(<<"text">>)
       /\ HasKey(part, "text") /\ Get(part, "text").t = "str"
    THEN Get(part, "text").s \o <<"\n">>
    ELSE <<>>

RECURSIVE ReferenceParts(_)
ReferenceParts(parts) ==
    IF parts = <<>> THEN <<>>
    ELSE ReferencePart(Head(parts)) \o ReferenceParts(Tail(parts))

RECURSIVE ReferenceArtifacts(_)
ReferenceArtifacts(artifacts) ==
    IF artifacts = <<>> THEN <<>>
    ELSE LET artifact == Head(artifacts)
             own == IF /\ artifact.t = "dict"
                       /\ HasKey(artifact, "parts")
                       /\ Get(artifact, "parts").t = "list"
                    THEN ReferenceParts(Get(artifact, "parts").items)
                    ELSE <<>>
         IN  own \o ReferenceArtifacts(Tail(artifacts))

\* the reference output of a result with an artifacts list: the texts in
\* artifact order then part order, trailing whitespace removed
ReferenceText(result) == RStrip(ReferenceArtifacts(Get(result, "artifacts").items))

\* the result send_request handed to this send_message has an artifacts list
HasArtifacts(r) ==
    /\ ~IsNone(r.outcome)
    /\ Val(r.outcome).kind = "return"
    /\ ~IsNone(Val(r.outcome).v.result)
    /\ Val(Val(r.outcome).v.result).t = "dict"
    /\ HasKey(Val(Val(r.outcome).v.result), "artifacts")
    /\ Get(Val(Val(r.outcome).v.result), "artifacts").t = "list"

\* C22: when send_message returns for a result with an artifacts list whose
\* texts are not all whitespace, the output is the reference text: the text
\* of every part of kind "text", in artifact order then part order, each
\* followed by a newline, with trailing whitespace removed and leading
\* whitespace kept.
C22_OutputIsReferenceText ==
    \A t \in Threads :
        ( /\ HasReturned(t, "send_message")
          /\ Result(t).kind = "return"
          /\ HasArtifacts(th[t])
          /\ ReferenceText(Val(Val(th[t].outcome).v.result)) # <<>> )
        => Result(t).v.output = Some(ReferenceText(Val(Val(th[t].outcome).v.result)))

\* nothing but whitespace can be extracted from the result: it has no
\* artifacts member, or an artifacts list whose texts are all whitespace
NothingToExtract(result) ==
    /\ result.t = "dict"
    /\ \/ ~HasKey(result, "artifacts")
       \/ /\ Get(result, "artifacts").t = "list"
          /\ ReferenceText(result) = <<>>

\* C23: when send_message returns, the output of the outcome is the
\* output_text of the turn and is never the empty string; when nothing but
\* whitespace could be extracted from the result, it is the string
\* rendering of the whole result.
C23_OutputNeverEmpty ==
    \A t \in Threads :
        (HasReturned(t, "send_message") /\ Result(t).kind = "return")
        => LET result == Val(Val(th[t].outcome).v.result)
           IN  /\ ~IsNone(Result(t).v.output)
               /\ Val(Result(t).v.output) # <<>>
               /\ TurnOf(th[t]).output_text = Result(t).v.output
               /\ NothingToExtract(result) => Result(t).v.output = Some(PyStr(result))

\* send_message has returned the rendering of a result whose only text is
\* whitespace
C23_Witness ==
    \E t \in Threads :
        /\ HasReturned(t, "send_message")
        /\ Result(t).kind = "return"
        /\ HasArtifacts(th[t])
        /\ ReferenceArtifacts(Get(Val(Val(th[t].outcome).v.result), "artifacts").items) # <<>>
        /\ NothingToExtract(Val(Val(th[t].outcome).v.result))
        /\ Result(t).v.output = Some(PyStr(Val(Val(th[t].outcome).v.result)))

\* the last n elements of s, all of s when it has fewer
MostRecent(s, n) ==
    IF n >= Len(s) THEN s ELSE SubSeq(s, Len(s) - n + 1, Len(s))

\* C24: get_conversation_history on a known session returns the most
\* recent min(N, L) of its L turns, in order, for every N >= 0, and all of
\* them when N is omitted; on an unknown id it raises SyncClientError
\* saying the session is not found.
C24_HistoryIsMostRecent ==
    \A t \in Threads :
        HasReturned(t, "get_conversation_history")
        => IF Contains(sessions, Val(th[t].session_id))
           THEN LET turns == heap[Val(DictGet(sessions, Val(th[t].session_id)))].turns
                IN  Result(t) = Returned(IF IsNone(th[t].max_turns) THEN turns
                                         ELSE MostRecent(turns, Val(th[t].max_turns)))
           ELSE /\ Result(t).kind = "raise"
                /\ Result(t).exc.type = "SyncClientError"
                /\ Result(t).exc.message
                     = <<"Session ", Val(th[t].session_id), " not found">>

\* what never changes in a turn: its id, its input and its timestamp
TurnIdentity(turn) == <<turn.turn_id, turn.input_text, turn.timestamp>>

\* the step appends one turn to the session: it is the add_turn of a
\* send_message on that session, and the turn carries its message
AppendsOneTurn(session) ==
    /\ Len(heap'[session].turns) = Len(heap[session].turns) + 1
    /\ \E t \in Threads :
          /\ th[t].op = "send_message"
          /\ th[t].pc = "add_turn"
          /\ IsNone(th[t].turn)
          /\ th[t].session = Some(session)
          /\ th'[t].pc # "add_turn"
          /\ th'[t].turn = Some(Len(heap'[session].turns))
          /\ heap'[session].turns[Len(heap'[session].turns)].input_text = th[t].message

\* C25: in every step, whatever the operation, each Session keeps the
\* turns it had, in the same places; its list either keeps its length or
\* grows by one turn at the end, and it grows only by the add_turn of a
\* send_message, which a call runs once.
C25_TurnsAreAppendOnly ==
    [][ \A session \in 1..Len(heap) :
            /\ \A i \in 1..Len(heap[session].turns) :
                  /\ i <= Len(heap'[session].turns)
                  /\ TurnIdentity(heap'[session].turns[i])
                       = TurnIdentity(heap[session].turns[i])
            /\ \/ Len(heap'[session].turns) = Len(heap[session].turns)
               \/ AppendsOneTurn(session) ]_vars

\* a session that has been taken out of the registry still has its two
\* turns
C25_Witness ==
    \E session \in 1..Len(heap) :
        /\ session \notin Refs(sessions)
        /\ ~heap[session].is_active
        /\ Len(heap[session].turns) = 2
        /\ heap[session].turns[1].turn_id # heap[session].turns[2].turn_id

\* the program points inside a `with self._lock` block that spans several
\* steps: close_session, cleanup_expired_sessions, clear_all_sessions
LockedSections == {"close_deactivate", "close_delete", "cleanup_loop", "clear_loop"}

\* a call of a store operation that has begun and has not yet returned or
\* raised
Started(t) == th[t].pc \notin {"idle", "ret"}

StoredAndActive(reg, hp, session) == session \in Refs(reg) /\ hp[session].is_active

\* in this step get_or_create_session hands a Session to its caller, be it
\* send_message (line 88) or the caller of the store
GocReturns(t) ==
    /\ th[t].op \in {"get_or_create_session", "send_message"}
    /\ th[t].pc \in {"create_session", "touch_store"}
    /\ th'[t].pc \in {"add_turn", "ret"}
    /\ ~IsNone(th'[t].session)

\* in this step a send_message writes on its Session: line 168 of the
\* store, or the append (line 60) or the refresh (line 61) of add_turn
SendMessageWrites(t) ==
    /\ th[t].op = "send_message"
    /\ th[t].pc \in {"touch_store", "add_turn", "add_turn_store"}
    /\ th'[t].pc # th[t].pc

\* C27: the Session that get_or_create_session hands over is, as the step
\* that returns it ends, in the registry and active; and a send_message
\* writes last_activity or appends a turn only on a Session that is in the
\* registry and active when the write happens.
C27_ResolvedSessionIsStored ==
    [][ \A t \in Threads :
            /\ GocReturns(t)
                 => StoredAndActive(sessions', heap', Val(th'[t].session))
            /\ SendMessageWrites(t)
                 => StoredAndActive(sessions, heap, Val(th[t].session)) ]_vars

=============================================================================
